---- MODULE Spec2Model ----
(***************************************************************************)
(* A model of astro-video-player: the AVI structure extractor and frame    *)
(* index (src/src/avi.rs), the Video frame sources                         *)
(* (src/src/video_format.rs) and the two pixel decoders                    *)
(* (src/src/codec.rs).                                                     *)
(*                                                                         *)
(* Bytes are naturals 0..255, a byte slice is a sequence (offset o of the  *)
(* slice is element o+1 of the sequence), a FourCC is a 4-tuple of bytes.  *)
(* A Result is a record with a status: "ok", "err" (an Err value was       *)
(* returned) or "panic" (the call did not return: assert!, unwrap on Err, *)
(* todo!, slice index out of range).                                       *)
(***************************************************************************)
EXTENDS Integers, Sequences, FiniteSets, TLC

VARIABLES
    file,    \* the container on disk: node tree, bytes, and what was written
    pc,      \* "closed" | "open" | "failed" | "panicked"  (AviFile::open)
    avi,     \* the AviFile built by open, or NoAvi
    err,     \* the error message open returned, or <<>>
    trace,   \* the checks open evaluated, in order
    reads,   \* the byte ranges open read from the file
    ser,     \* the raw-sensor frame source (SerFile), or NoSer
    res,     \* the result of the last call made on the frame source
    hist,    \* history: a decode result kept for comparison with later calls
    th,      \* the decode calls in progress, one per thread
    player,  \* the VideoPlayer: its current frame value
    big,     \* the dimensions of a source too large to hold as bytes, or NoBig
    build    \* the build profile of the program: "debug" or "release"

vars == <<file, pc, avi, err, trace, reads, ser, res, hist, th, player, big, build>>

----------------------------------------------------------------------------
(* Bounds of the model. *)

MaxDim == 2          \* AVI image width and height range over 1..MaxDim
MaxTotalFrames == 2  \* the main header's total_frames ranges over 0..MaxTotalFrames
MaxMovi == 2         \* the 'movi' list has at most MaxMovi children
MaxIndex == 3        \* frame indices passed to calls range over 0..MaxIndex
MaxSerDim == 4       \* SER image width and height range over 0..MaxSerDim
MaxSerFrames == 1    \* a SER source has 1..MaxSerFrames frames

----------------------------------------------------------------------------
(* FourCC tags. *)

FOURCC_AVIH == <<97, 118, 105, 104>>
FOURCC_HDRL == <<104, 100, 114, 108>>
FOURCC_STRH == <<115, 116, 114, 104>>
FOURCC_STRF == <<115, 116, 114, 102>>
FOURCC_INDX == <<105, 110, 100, 120>>
FOURCC_STRL == <<115, 116, 114, 108>>
FOURCC_MOVI == <<109, 111, 118, 105>>
FOURCC_00DB == <<48, 48, 100, 98>>
\* Tags of the container format that the extractor never names.
FOURCC_RIFF == <<82, 73, 70, 70>>
FOURCC_AVI == <<65, 86, 73, 32>>
FOURCC_LIST == <<76, 73, 83, 84>>
FOURCC_JUNK == <<74, 85, 78, 75>>
FOURCC_REC == <<114, 101, 99, 32>>
FOURCC_IDX1 == <<105, 100, 120, 49>>

\* The characters ' ' (32) to '~' (126), in order; the grave accent (96),
\* which a string here cannot hold, is written \u{60}.
AsciiChars ==
    << " ", "!", "\"", "#", "$", "%", "&", "'", "(", ")", "*", "+",
       ",", "-", ".", "/", "0", "1", "2", "3", "4", "5", "6", "7",
       "8", "9", ":", ";", "<", "=", ">", "?", "@", "A", "B", "C",
       "D", "E", "F", "G", "H", "I", "J", "K", "L", "M", "N", "O",
       "P", "Q", "R", "S", "T", "U", "V", "W", "X", "Y", "Z", "[",
       "\\", "]", "^", "_", "\\u{60}", "a", "b", "c", "d", "e", "f", "g",
       "h", "i", "j", "k", "l", "m", "n", "o", "p", "q", "r", "s",
       "t", "u", "v", "w", "x", "y", "z", "{", "|", "}", "~" >>

HexDigits ==
    << "0", "1", "2", "3", "4", "5", "6", "7", "8", "9", "a", "b", "c", "d", "e", "f" >>

\* A number in lower-case hexadecimal without leading zeros ({:x}).
RECURSIVE HexText(_)
HexText(n) ==
    IF n < 16 THEN HexDigits[n + 1]
    ELSE HexText(n \div 16) \o HexDigits[(n % 16) + 1]

\* One character of a String by its code point.  A character outside
\* ' '..'~' other than tab, line feed, form feed and carriage return has no
\* literal here and is written \u{hex}; the String of the code holds the
\* character itself.
CharText(cp) ==
    CASE cp \in 32..126 -> AsciiChars[cp - 31]
      [] cp = 9 -> "\t"
      [] cp = 10 -> "\n"
      [] cp = 12 -> "\f"
      [] cp = 13 -> "\r"
      [] OTHER -> "\\u{" \o HexText(cp) \o "}"

\* A continuation byte of UTF-8 within lo..hi.
Cont(value, i, lo, hi) == i <= Len(value) /\ value[i] \in lo..hi

\* The length of the well-formed UTF-8 sequence that starts at byte i, or 0
\* when the bytes from i on do not start one.
Utf8Len(value, i) ==
    LET b == value[i]
    IN CASE b \in 0..127 -> 1
         [] b \in 194..223 -> IF Cont(value, i + 1, 128, 191) THEN 2 ELSE 0
         [] b = 224 -> IF Cont(value, i + 1, 160, 191) /\ Cont(value, i + 2, 128, 191)
                       THEN 3 ELSE 0
         [] b \in 225..236 \/ b \in 238..239 ->
                IF Cont(value, i + 1, 128, 191) /\ Cont(value, i + 2, 128, 191)
                THEN 3 ELSE 0
         [] b = 237 -> IF Cont(value, i + 1, 128, 159) /\ Cont(value, i + 2, 128, 191)
                       THEN 3 ELSE 0
         [] b = 240 -> IF Cont(value, i + 1, 144, 191) /\ Cont(value, i + 2, 128, 191)
                          /\ Cont(value, i + 3, 128, 191)
                       THEN 4 ELSE 0
         [] b \in 241..243 ->
                IF Cont(value, i + 1, 128, 191) /\ Cont(value, i + 2, 128, 191)
                   /\ Cont(value, i + 3, 128, 191)
                THEN 4 ELSE 0
         [] b = 244 -> IF Cont(value, i + 1, 128, 143) /\ Cont(value, i + 2, 128, 191)
                          /\ Cont(value, i + 3, 128, 191)
                       THEN 4 ELSE 0
         [] OTHER -> 0

\* The code point of the sequence of n bytes that starts at byte i.
Utf8CodePoint(value, i, n) ==
    CASE n = 1 -> value[i]
      [] n = 2 -> (value[i] % 32) * 64 + (value[i + 1] % 64)
      [] n = 3 -> (value[i] % 16) * 4096 + (value[i + 1] % 64) * 64 + (value[i + 2] % 64)
      [] OTHER -> (value[i] % 8) * 262144 + (value[i + 1] % 64) * 4096
                  + (value[i + 2] % 64) * 64 + (value[i + 3] % 64)

\* str::from_utf8 from byte i on: whether the bytes are well-formed UTF-8.
RECURSIVE Utf8Valid(_, _)
Utf8Valid(value, i) ==
    IF i > Len(value) THEN TRUE
    ELSE /\ Utf8Len(value, i) > 0
         /\ Utf8Valid(value, i + Utf8Len(value, i))

\* The text of well-formed UTF-8 bytes from byte i on.
RECURSIVE Utf8Text(_, _)
Utf8Text(value, i) ==
    IF i > Len(value) THEN ""
    ELSE CharText(Utf8CodePoint(value, i, Utf8Len(value, i)))
            \o Utf8Text(value, i + Utf8Len(value, i))

\* format!("{:x?}", value) of a byte array: "[ff, fe, 0, 1]".
RECURSIVE HexList(_, _)
HexList(value, i) ==
    IF i > Len(value) THEN ""
    ELSE (IF i = 1 THEN "" ELSE ", ") \o HexText(value[i]) \o HexList(value, i + 1)

\* format_fourcc: the four bytes as text when they are UTF-8, and their
\* hexadecimal debug form otherwise.
format_fourcc(value) ==
    IF Utf8Valid(value, 1) THEN Utf8Text(value, 1)
    ELSE "[" \o HexList(value, 1) \o "]"

----------------------------------------------------------------------------
(* Little-endian integers in a byte sequence. *)

U16Bytes(n) == << n % 256, (n \div 256) % 256 >>

U32Bytes(n) ==
    << n % 256, (n \div 256) % 256, (n \div 65536) % 256, (n \div 16777216) % 256 >>

\* The byte at offset off of bs; 0 stands for a byte outside the sequence.
ByteAt(bs, off) == IF off + 1 \in DOMAIN bs THEN bs[off + 1] ELSE 0

ReadU16BE(bs, off) == 256 * ByteAt(bs, off) + ByteAt(bs, off + 1)

ReadU16LE(bs, off) == ByteAt(bs, off) + 256 * ByteAt(bs, off + 1)

ReadU32LE(bs, off) ==
    ByteAt(bs, off) + 256 * ByteAt(bs, off + 1)
        + 65536 * ByteAt(bs, off + 2) + 16777216 * ByteAt(bs, off + 3)

\* riff.read_bytes(from..to): the slice of the file, a panic when out of range.
Slice(bs, from, to) == [i \in 1..(to - from) |-> bs[from + i]]

SliceOk(bs, from, to) == from <= to /\ to <= Len(bs)

----------------------------------------------------------------------------
(* The container on disk and the node tree the RIFF reader (riff_io)       *)
(* hands to AviFile::open.                                                 *)
(*                                                                         *)
(* A leaf is written as its 4-byte id, its declared size as a              *)
(* little-endian u32, the payload, and one pad byte when the size is odd.  *)
(* A list is written as 'LIST', its size, its 4-byte type and its          *)
(* children.  The reader reports a leaf as a ChunkMeta: chunk_size is the  *)
(* declared size, data_offset the offset of the payload, data_size the     *)
(* declared size rounded up to the padding rule.                           *)

ChunkNode(id, payload) == [kind |-> "Chunk", id |-> id, payload |-> payload]

ListNode(type, children) == [kind |-> "List", id |-> type, children |-> children]

RECURSIVE LayoutOne(_, _)
RECURSIVE LayoutSeq(_, _)

\* One node written at offset pos: its Entry and its bytes.
LayoutOne(n, pos) ==
    IF n.kind = "Chunk"
    THEN LET size == Len(n.payload)
             pad == size % 2
         IN [entry |-> [kind |-> "Chunk",
                        chunk_id |-> n.id,
                        chunk_size |-> size,
                        data_offset |-> pos + 8,
                        data_size |-> size + pad],
             bytes |-> n.id \o U32Bytes(size) \o n.payload
                        \o (IF pad = 1 THEN <<0>> ELSE <<>>)]
    ELSE LET sub == LayoutSeq(n.children, pos + 12)
         IN [entry |-> [kind |-> "List",
                        list_type |-> n.id,
                        children |-> sub.entries],
             bytes |-> FOURCC_LIST \o U32Bytes(4 + Len(sub.bytes)) \o n.id
                        \o sub.bytes]

LayoutSeq(nodes, pos) ==
    IF nodes = <<>>
    THEN [entries |-> <<>>, bytes |-> <<>>]
    ELSE LET h == LayoutOne(Head(nodes), pos)
             t == LayoutSeq(Tail(nodes), pos + Len(h.bytes))
         IN [entries |-> <<h.entry>> \o t.entries, bytes |-> h.bytes \o t.bytes]

\* RiffFile::open + read_entries: 'RIFF', size, 'AVI ', then the top-level nodes.
RiffFile(nodes) ==
    LET body == LayoutSeq(nodes, 12)
    IN [entries |-> body.entries,
        bytes |-> FOURCC_RIFF \o U32Bytes(4 + Len(body.bytes)) \o FOURCC_AVI
                    \o body.bytes]

\* A payload of size bytes, zero except for the fields given as
\* <<offset, width in bytes, value>>, each written little-endian.
RECURSIVE FieldByte(_, _)
FieldByte(fields, off) ==
    IF fields = <<>> THEN 0
    ELSE LET f == Head(fields)
         IN IF f[1] <= off /\ off < f[1] + f[2]
            THEN IF f[2] = 2 THEN U16Bytes(f[3])[off - f[1] + 1]
                             ELSE U32Bytes(f[3])[off - f[1] + 1]
            ELSE FieldByte(Tail(fields), off)

RecordPayload(size, fields) == [i \in 1..size |-> FieldByte(fields, i - 1)]

\* The bytes of the k-th frame payload written to the file: every byte of
\* every frame of one file is different.
FrameByte(k, j) == (10 + 40 * k + j) % 256

FramePayload(k, size) == [i \in 1..size |-> FrameByte(k, i - 1)]

\* The children of 'movi' for a sequence of kinds; k numbers the frame
\* payloads.  "frame": a '00db' leaf of width*height*3 bytes; "short": a
\* '00db' leaf one byte too short; "junk": a 'JUNK' leaf of one byte;
\* "rec": a nested 'rec ' list holding a '00db' leaf.
MoviKinds == {"frame", "short", "junk", "rec"}

RECURSIVE MoviNodes(_, _, _)
MoviNodes(kinds, fsize, k) ==
    IF kinds = <<>> THEN <<>>
    ELSE LET c == Head(kinds)
             n == CASE c = "frame" -> ChunkNode(FOURCC_00DB, FramePayload(k, fsize))
                    [] c = "short" -> ChunkNode(FOURCC_00DB, FramePayload(k, fsize - 1))
                    [] c = "junk" -> ChunkNode(FOURCC_JUNK, <<0>>)
                    [] c = "rec" -> ListNode(FOURCC_REC,
                                       <<ChunkNode(FOURCC_00DB, FramePayload(k, fsize))>>)
         IN <<n>> \o MoviNodes(Tail(kinds), fsize, IF c = "junk" THEN k ELSE k + 1)

Opt(present, node) == IF present THEN <<node>> ELSE <<>>

\* The container written for a declaration d: the lists and leaves named in
\* d.missing are left out; d.stray puts one '00db' leaf beside 'movi'.
Container(d) ==
    LET fsize == d.width * d.height * 3
        avih == ChunkNode(FOURCC_AVIH,
                    RecordPayload(d.avih_size,
                        << <<16, 4, d.total_frames>>, <<32, 4, d.width>>,
                           <<36, 4, d.height>> >>))
        strh == ChunkNode(FOURCC_STRH,
                    RecordPayload(d.strh_size, << <<32, 4, d.total_frames>> >>))
        strf == ChunkNode(FOURCC_STRF,
                    RecordPayload(d.strf_size,
                        << <<0, 4, 40>>, <<4, 4, d.width>>, <<8, 4, d.height>>,
                           <<12, 2, d.planes>>, <<14, 2, d.bit_count>>,
                           <<16, 4, d.compression>>, <<20, 4, fsize>> >>))
        indx == ChunkNode(FOURCC_INDX, <<0, 0, 0, 0>>)
        strl == ListNode(FOURCC_STRL,
                    Opt("strh" \notin d.missing, strh)
                    \o Opt("strf" \notin d.missing, strf)
                    \o Opt("indx" \notin d.missing, indx))
        hdrl == ListNode(FOURCC_HDRL,
                    Opt("avih" \notin d.missing, avih)
                    \o Opt("strl" \notin d.missing, strl))
        movi == ListNode(FOURCC_MOVI, MoviNodes(d.movi, fsize, 1))
        riff == RiffFile(
                    Opt("hdrl" \notin d.missing, hdrl)
                    \o <<ChunkNode(FOURCC_JUNK, <<0, 0>>)>>
                    \o Opt(d.stray, ChunkNode(FOURCC_00DB, FramePayload(0, fsize)))
                    \o Opt("movi" \notin d.missing, movi)
                    \o <<ChunkNode(FOURCC_IDX1, <<0, 0, 0, 0>>)>>)
    IN [entries |-> riff.entries,
        bytes |-> riff.bytes,
        decl |-> [total_frames |-> d.total_frames,
                  width |-> d.width,
                  height |-> d.height,
                  bit_count |-> d.bit_count,
                  planes |-> d.planes,
                  compression |-> d.compression]]

----------------------------------------------------------------------------
(* src/src/avi.rs: the structure extractor.                                *)

\* Minimum data_size asserted before a header record is decoded, and the
\* number of bytes each record type occupies.
MAIN_HEADER_MIN == 44
STREAM_HEADER_MIN == 56
STREAM_FORMAT_MIN == 48

NoAvi == [none |-> TRUE]
NoVal == [none |-> TRUE]

\* The AviError message built by format!, as its pieces.
MsgMissingTopList(tag) == <<"AVI file is missing mandatory list '", tag, "'">>
MsgMissingList(parent, tag) == <<"List '", parent, "' is missing mandatory list '", tag, "'">>
MsgMissingChunk(parent, tag) == <<"List '", parent, "' is missing mandatory chunk '", tag, "'">>
MsgJpgPng == <<"JPG and PNG are not supported">>
MsgMonochrome == <<"Monochrome images are not supported">>
MsgUnsupportedBitCount == <<"Unsupported bit_count">>
MsgInvalidBitCount == <<"Invalid bit_count">>

ResOk(v, rd) == [status |-> "ok", val |-> v, err |-> <<>>, reads |-> rd]
ResErr(m, rd) == [status |-> "err", val |-> NoVal, err |-> m, reads |-> rd]
ResPanic(rd) == [status |-> "panic", val |-> NoVal, err |-> <<>>, reads |-> rd]

\* entries.iter().find_map(..): the first List entry of the given type.
RECURSIVE FindList(_, _)
FindList(entries, list_type) ==
    IF entries = <<>> THEN NoVal
    ELSE IF Head(entries).kind = "List" /\ Head(entries).list_type = list_type
         THEN Head(entries)
         ELSE FindList(Tail(entries), list_type)

\* children.iter().find_map(..): the first Chunk entry with the given id.
RECURSIVE FindChunk(_, _)
FindChunk(entries, chunk_id) ==
    IF entries = <<>> THEN NoVal
    ELSE IF Head(entries).kind = "Chunk" /\ Head(entries).chunk_id = chunk_id
         THEN Head(entries)
         ELSE FindChunk(Tail(entries), chunk_id)

\* find_mandatory_list with a missing list taken for an empty one.
find_list_or_empty(entries, list_type) ==
    LET list == FindList(entries, list_type)
    IN IF list = NoVal
       THEN ResOk([kind |-> "List", list_type |-> list_type, children |-> <<>>], <<>>)
       ELSE ResOk(list, <<>>)

find_mandatory_list(entries, list_type) ==
    LET list == FindList(entries, list_type)
    IN IF list = NoVal
       THEN ResErr(MsgMissingTopList(format_fourcc(list_type)), <<>>)
       ELSE ResOk(list, <<>>)

find_mandatory_list_in_list(parent, list_type) ==
    LET list == FindList(parent.children, list_type)
    IN IF list = NoVal
       THEN ResErr(MsgMissingList(format_fourcc(parent.list_type),
                                  format_fourcc(list_type)), <<>>)
       ELSE ResOk(list, <<>>)

\* find_mandatory_chunk with the 'indx' chunk optional.
find_chunk_indx_optional(meta, chunk_id) ==
    LET chunk == FindChunk(meta.children, chunk_id)
    IN IF chunk = NoVal /\ chunk_id # FOURCC_INDX
       THEN ResErr(MsgMissingChunk(format_fourcc(meta.list_type),
                                   format_fourcc(chunk_id)), <<>>)
       ELSE ResOk(chunk, <<>>)

find_mandatory_chunk(meta, chunk_id) ==
    LET chunk == FindChunk(meta.children, chunk_id)
    IN IF chunk = NoVal
       THEN ResErr(MsgMissingChunk(format_fourcc(meta.list_type),
                                   format_fourcc(chunk_id)), <<>>)
       ELSE ResOk(chunk, <<>>)

\* A byte range [from, to) of the file.
Range(from, to) == [from |-> from, to |-> to]

\* assert!(data_size >= 44); the slice data_offset..data_offset+chunk_size;
\* ptr::read of an AviMainHeader (44 bytes) at the start of the slice.
parse_main_header(riff, chunk) ==
    IF ~(chunk.data_size >= MAIN_HEADER_MIN) THEN ResPanic(<<>>)
    ELSE IF ~SliceOk(riff, chunk.data_offset, chunk.data_offset + chunk.chunk_size)
    THEN ResPanic(<<>>)
    ELSE ResOk([total_frames |-> ReadU32LE(riff, chunk.data_offset + 16),
                width |-> ReadU32LE(riff, chunk.data_offset + 32),
                height |-> ReadU32LE(riff, chunk.data_offset + 36)],
               <<Range(chunk.data_offset, chunk.data_offset + chunk.chunk_size),
                 Range(chunk.data_offset, chunk.data_offset + MAIN_HEADER_MIN)>>)

\* parse_stream_header without the assertion on data_size.
parse_stream_header_no_assert(riff, chunk) ==
    IF ~SliceOk(riff, chunk.data_offset, chunk.data_offset + chunk.chunk_size)
    THEN ResPanic(<<>>)
    ELSE ResOk([length |-> ReadU32LE(riff, chunk.data_offset + 32)],
               <<Range(chunk.data_offset, chunk.data_offset + chunk.chunk_size),
                 Range(chunk.data_offset, chunk.data_offset + STREAM_HEADER_MIN)>>)

\* assert!(data_size >= 56); ptr::read of an AviStreamHeader (56 bytes).
parse_stream_header(riff, chunk) ==
    IF ~(chunk.data_size >= STREAM_HEADER_MIN) THEN ResPanic(<<>>)
    ELSE IF ~SliceOk(riff, chunk.data_offset, chunk.data_offset + chunk.chunk_size)
    THEN ResPanic(<<>>)
    ELSE ResOk([length |-> ReadU32LE(riff, chunk.data_offset + 32)],
               <<Range(chunk.data_offset, chunk.data_offset + chunk.chunk_size),
                 Range(chunk.data_offset, chunk.data_offset + STREAM_HEADER_MIN)>>)

\* BitCountResult with 32 bits per pixel accepted like 24.
BitCountResultAccept32(header, rd) ==
    IF header.bit_count \in {24, 32}
    THEN ResOk([header |-> header, color_coding |-> "BGR", rgb |-> <<>>], rd)
    ELSE IF header.bit_count \in {0, 1, 4, 8, 16}
    THEN ResErr(MsgUnsupportedBitCount, rd)
    ELSE ResErr(MsgInvalidBitCount, rd)

\* The match on header.bit_count.
BitCountResult(header, rd) ==
    CASE header.bit_count = 0 -> ResErr(MsgJpgPng, rd)
      [] header.bit_count = 1 -> ResErr(MsgMonochrome, rd)
      [] header.bit_count = 4 -> ResErr(MsgUnsupportedBitCount, rd)
      [] header.bit_count = 8 -> ResErr(MsgUnsupportedBitCount, rd)
      [] header.bit_count = 16 -> ResErr(MsgUnsupportedBitCount, rd)
      [] header.bit_count = 24 ->
            ResOk([header |-> header, color_coding |-> "BGR", rgb |-> <<>>], rd)
      [] header.bit_count = 32 -> ResErr(MsgUnsupportedBitCount, rd)
      [] OTHER -> ResErr(MsgInvalidBitCount, rd)

\* assert!(data_size >= 48); the slice data_offset..data_offset+48; ptr::read
\* of a BitMapInfoHeader (48 bytes); then the match on bit_count.
parse_stream_format(riff, chunk) ==
    IF ~(chunk.data_size >= STREAM_FORMAT_MIN) THEN ResPanic(<<>>)
    ELSE IF ~SliceOk(riff, chunk.data_offset, chunk.data_offset + STREAM_FORMAT_MIN)
    THEN ResPanic(<<>>)
    ELSE BitCountResult(
            [size |-> ReadU32LE(riff, chunk.data_offset),
             planes |-> ReadU16LE(riff, chunk.data_offset + 12),
             bit_count |-> ReadU16LE(riff, chunk.data_offset + 14),
             compression |-> ReadU32LE(riff, chunk.data_offset + 16),
             size_image |-> ReadU32LE(riff, chunk.data_offset + 20)],
            <<Range(chunk.data_offset, chunk.data_offset + STREAM_FORMAT_MIN)>>)

\* IsFrameChunk with every leaf taken for a frame.
IsAnyChunk(e) == e.kind = "Chunk"

\* movi.children.iter().filter_map(..).collect(): the Chunk children with
\* id '00db', cloned in order.
IsFrameChunk(e) == e.kind = "Chunk" /\ e.chunk_id = FOURCC_00DB

RECURSIVE CollectFrames(_)
CollectFrames(children) ==
    IF children = <<>> THEN <<>>
    ELSE IF IsFrameChunk(Head(children))
         THEN <<Head(children)>> \o CollectFrames(Tail(children))
         ELSE CollectFrames(Tail(children))

\* What open leaves behind: the outcome, the error, the AviFile, the checks
\* evaluated in order (the last one is the one that failed) and the byte
\* ranges read.
Opened(status, e, a, tr, rd) ==
    [status |-> status, err |-> e, avi |-> a, trace |-> tr, reads |-> rd]

\* One `?` of open: r failed, so open returns its error (or panics with it).
Stop(r, tr, rd) == Opened(r.status, r.err, NoAvi, tr, rd \o r.reads)

AviFile_open(f) ==
    LET riff == f.bytes
        entries == f.entries
        hdrl == find_mandatory_list(entries, FOURCC_HDRL)
        chunk == find_mandatory_chunk(hdrl.val, FOURCC_AVIH)
        main_header == parse_main_header(riff, chunk.val)
        strl == find_mandatory_list_in_list(hdrl.val, FOURCC_STRL)
        strh == find_mandatory_chunk(strl.val, FOURCC_STRH)
        strf == find_mandatory_chunk(strl.val, FOURCC_STRF)
        indx == find_mandatory_chunk(strl.val, FOURCC_INDX)
        stream_header == parse_stream_header(riff, strh.val)
        stream_format == parse_stream_format(riff, strf.val)
        movi == find_mandatory_list(entries, FOURCC_MOVI)
        frames == CollectFrames(movi.val.children)
        t1 == <<"find hdrl">>
        t2 == t1 \o <<"find avih">>
        t3 == t2 \o <<"parse avih">>
        t4 == t3 \o <<"find strl">>
        t5 == t4 \o <<"find strh">>
        t6 == t5 \o <<"find strf">>
        t7 == t6 \o <<"find indx">>
        t8 == t7 \o <<"parse strh">>
        t9 == t8 \o <<"parse strf">>
        t10 == t9 \o <<"find movi">>
        rd3 == main_header.reads
        rd8 == rd3 \o stream_header.reads
        rd9 == rd8 \o stream_format.reads
    IN IF hdrl.status # "ok" THEN Stop(hdrl, t1, <<>>)
       ELSE IF chunk.status # "ok" THEN Stop(chunk, t2, <<>>)
       ELSE IF main_header.status # "ok" THEN Stop(main_header, t3, <<>>)
       ELSE IF strl.status # "ok" THEN Stop(strl, t4, rd3)
       ELSE IF strh.status # "ok" THEN Stop(strh, t5, rd3)
       ELSE IF strf.status # "ok" THEN Stop(strf, t6, rd3)
       ELSE IF indx.status # "ok" THEN Stop(indx, t7, rd3)
       ELSE IF stream_header.status # "ok" THEN Stop(stream_header, t8, rd3)
       ELSE IF stream_format.status # "ok" THEN Stop(stream_format, t9, rd8)
       ELSE IF movi.status # "ok" THEN Stop(movi, t10, rd9)
       ELSE Opened("ok", <<>>,
                   [riff |-> riff,
                    main_header |-> main_header.val,
                    stream_header |-> stream_header.val,
                    stream_format |-> stream_format.val,
                    frames |-> frames],
                   t10 \o <<"index frames">>, rd9)

\* AviFile::read_bytes: data_offset..data_offset + data_size of the file.
AviFile_read_bytes(a, chunk_meta) ==
    IF SliceOk(a.riff, chunk_meta.data_offset,
               chunk_meta.data_offset + chunk_meta.data_size)
    THEN ResOk(Slice(a.riff, chunk_meta.data_offset,
                     chunk_meta.data_offset + chunk_meta.data_size),
               <<Range(chunk_meta.data_offset,
                       chunk_meta.data_offset + chunk_meta.data_size)>>)
    ELSE ResPanic(<<>>)

----------------------------------------------------------------------------
(* src/src/video_format.rs: the frame sources.  A Video is                 *)
(* [kind |-> "avi", avi |-> an AviFile] or [kind |-> "ser", ser |-> a      *)
(* SerFile].                                                               *)

NoSer == [none |-> TRUE]

AviVideo(a) == [kind |-> "avi", avi |-> a]
SerVideo(s) == [kind |-> "ser", ser |-> s]

\* SerFile::read_frame of the raw-sensor library: the index-th frame, an
\* Err for an index that is not below frame_count.
SerFile_read_frame(s, index) ==
    IF index < s.frame_count
    THEN ResOk(s.frames[index + 1], <<>>)
    ELSE ResErr(<<"invalid frame index">>, <<>>)

image_width(v) ==
    IF v.kind = "avi" THEN v.avi.main_header.width ELSE v.ser.image_width

image_height(v) ==
    IF v.kind = "avi" THEN v.avi.main_header.height ELSE v.ser.image_height

frame_count(v) ==
    IF v.kind = "avi" THEN v.avi.main_header.total_frames ELSE v.ser.frame_count

bytes_per_pixel(v) ==
    IF v.kind = "avi" THEN 1 ELSE v.ser.bytes_per_pixel

pixel_depth_bits(v) ==
    IF v.kind = "avi" THEN 8 ELSE v.ser.pixel_depth_per_plane

bayer(v) ==
    IF v.kind = "avi" THEN "BGR" ELSE v.ser.bayer

endianness(v) ==
    IF v.kind = "avi" THEN "LittleEndian" ELSE v.ser.endianness

\* AviVideo::get_frame: &self.avi.frames()[index] panics for an index that
\* is not in the frame index; otherwise Ok(read_bytes(frame_meta)).
AviVideo_get_frame(a, index) ==
    IF ~(index < Len(a.frames)) THEN ResPanic(<<>>)
    ELSE AviFile_read_bytes(a, a.frames[index + 1])

get_frame(v, index) ==
    IF v.kind = "avi" THEN AviVideo_get_frame(v.avi, index)
    ELSE SerFile_read_frame(v.ser, index)

----------------------------------------------------------------------------
(* src/src/codec.rs: the pixel decoders.                                   *)
(* The u32 products and sums of the decoders (width * height * 4,           *)
(* y * bytes_per_row, ...) are computed exactly: for the image sizes of    *)
(* the inputs below they stay far under 2^32.                              *)

Decoded(w, h, pixels) == [status |-> "ok", width |-> w, height |-> h, pixels |-> pixels]
DecodePanic == [status |-> "panic", width |-> 0, height |-> 0, pixels |-> <<>>]

ALPHA == 255

\* RgbPixel with the alpha byte left out.
RgbPixelNoAlpha(bytes, offset) ==
    <<bytes[offset + 1], bytes[offset + 2], bytes[offset + 3]>>

\* RgbPixel with the three bytes read as r, g, b.
RgbPixelAsRgb(bytes, offset) ==
    LET r == bytes[offset + 1]
        g == bytes[offset + 2]
        b == bytes[offset + 3]
    IN <<b, g, r, ALPHA>>

\* One pixel of RgbCodec::decode for Bayer::BGR: b, g, r read from three
\* consecutive bytes and pushed as b, g, r, alpha.
RgbPixel(bytes, offset) ==
    LET b == bytes[offset + 1]
        g == bytes[offset + 2]
        r == bytes[offset + 3]
    IN <<b, g, r, ALPHA>>

\* The nested for loops of RgbCodec::decode, from pixel (x, y) on, with the
\* pixels pushed so far.  c holds what the loops read: the codec's bayer,
\* the frame bytes, the image width and height and bytes_per_row.
RECURSIVE RgbLoop(_, _, _, _)
RgbLoop(c, y, x, pixels) ==
    IF ~(y < c.height) THEN Decoded(c.width, c.height, pixels)
    ELSE IF ~(x < c.width) THEN RgbLoop(c, y + 1, 0, pixels)
    ELSE LET y_offset == y * c.bytes_per_row
             x_offset == x * 3
             offset == y_offset + x_offset
         IN IF c.bayer # "BGR" THEN DecodePanic
            ELSE IF ~(offset + 2 < Len(c.bytes)) THEN DecodePanic
            ELSE RgbLoop(c, y, x + 1, pixels \o RgbPixel(c.bytes, offset))

RgbCodec_decode(codec_bayer, video, frame_index) ==
    LET frame == get_frame(video, frame_index)
    IN IF frame.status # "ok" THEN DecodePanic
       ELSE RgbLoop([bayer |-> codec_bayer,
                     bytes |-> frame.val,
                     width |-> image_width(video),
                     height |-> image_height(video),
                     bytes_per_row |-> image_width(video) * 3],
                    0, 0, <<>>)

\* The build profiles: overflow checks on (debug) and off (release).
Builds == {"debug", "release"}

\* let max_value = base.pow(bits) as f32 with base: i32 = 2: for bits >= 31
\* the power overflows an i32, which panics in a debug build.
PowPanics(bits) == build = "debug" /\ bits >= 31

\* ((sample as f32 / max_value) * 255.0) as u8 for a u16 sample, with
\* max_value = 2^bits as the i32 power gives it.  Up to 30 bits the
\* quotient and the product are exact in f32, and the cast truncates and
\* saturates.  With overflow checks off the power wraps: for 31 bits it is
\* i32::MIN, a quotient that is not positive and casts to 0; from 32 bits
\* on it is 0, where 0/0 is NaN and casts to 0 and any other sample gives
\* infinity and casts to 255.
ScaleSample(sample, bits) ==
    CASE bits <= 30 -> LET q == (sample * 255) \div (2 ^ bits)
                       IN IF q > 255 THEN 255 ELSE q
      [] bits = 31 -> 0
      [] OTHER -> IF sample = 0 THEN 0 ELSE 255

\* pixel.read_u16::<LittleEndian/BigEndian>() or read_u8 at offset off.
ReadSample(c, off) ==
    IF c.bytes_per_pixel = 2
    THEN IF c.endianness = "LittleEndian" THEN ReadU16LE(c.bytes, off)
                                           ELSE ReadU16BE(c.bytes, off)
    ELSE ByteAt(c.bytes, off)

\* DebayerPixel with blue taken from the bottom-left sample, quad[2].
DebayerPixelBottomLeft(quad, bits) ==
    LET r == quad[1]
        g == quad[2]
        b == quad[3]
    IN << ScaleSample(b, bits), ScaleSample(g, bits), ScaleSample(r, bits), ALPHA >>

\* One output pixel of DebayerCodec::decode from the four samples of a
\* block: r, g, b taken from quad[0], quad[1], quad[3], pushed as b, g, r,
\* alpha.
DebayerPixel(quad, bits) ==
    LET r == quad[1]
        g == quad[2]
        b == quad[4]
    IN << ScaleSample(b, bits), ScaleSample(g, bits), ScaleSample(r, bits), ALPHA >>

\* DebayerLoop without the bounds checks of the slice expressions: a sample
\* outside the frame reads as 0.
RECURSIVE DebayerLoopUnchecked(_, _, _, _)
DebayerLoopUnchecked(c, y, x, pixels) ==
    IF ~(y < c.height) THEN Decoded(c.width \div 2, c.height \div 2, pixels)
    ELSE IF ~(x < c.width) THEN DebayerLoopUnchecked(c, y + 2, 0, pixels)
    ELSE LET offset == y * c.bytes_per_row + x * c.bytes_per_pixel
             next_row_offset == offset + c.bytes_per_row
             step == IF c.bytes_per_pixel = 2 THEN 2 ELSE 1
             quad == << ReadSample(c, offset),
                        ReadSample(c, offset + step),
                        ReadSample(c, next_row_offset),
                        ReadSample(c, next_row_offset + step) >>
         IN DebayerLoopUnchecked(c, y, x + 2, pixels \o DebayerPixel(quad, c.bits))

\* The nested while loops of DebayerCodec::decode, from block origin (x, y)
\* on.  c holds the frame bytes, width, height, bytes_per_pixel,
\* bytes_per_row, the byte order and the pixel depth.
RECURSIVE DebayerLoop(_, _, _, _)
DebayerLoop(c, y, x, pixels) ==
    IF ~(y < c.height) THEN Decoded(c.width \div 2, c.height \div 2, pixels)
    ELSE IF ~(x < c.width) THEN DebayerLoop(c, y + 2, 0, pixels)
    ELSE LET y_offset == y * c.bytes_per_row
             x_offset == x * c.bytes_per_pixel
             offset == y_offset + x_offset
             next_row_offset == y_offset + c.bytes_per_row + x_offset
             step == IF c.bytes_per_pixel = 2 THEN 2 ELSE 1
         IN IF ~(offset + 2 * step <= Len(c.bytes)) THEN DecodePanic
            ELSE IF ~(next_row_offset + 2 * step <= Len(c.bytes)) THEN DecodePanic
            ELSE LET quad == << ReadSample(c, offset),
                                ReadSample(c, offset + step),
                                ReadSample(c, next_row_offset),
                                ReadSample(c, next_row_offset + step) >>
                 IN DebayerLoop(c, y, x + 2, pixels \o DebayerPixel(quad, c.bits))

DebayerCodec_decode(video, frame_index) ==
    LET frame == get_frame(video, frame_index)
    IN IF frame.status # "ok" THEN DecodePanic
       ELSE IF PowPanics(pixel_depth_bits(video)) THEN DecodePanic
       ELSE DebayerLoop([bytes |-> frame.val,
                         width |-> image_width(video),
                         height |-> image_height(video),
                         bytes_per_pixel |-> bytes_per_pixel(video),
                         bytes_per_row |->
                             image_width(video) * bytes_per_pixel(video),
                         endianness |-> endianness(video),
                         bits |-> pixel_depth_bits(video)],
                        0, 0, <<>>)

----------------------------------------------------------------------------
(* src/src/debayer.rs and src/src/main.rs: the debayers of the first       *)
(* player, which take the raw-sensor file itself.                          *)

\* The while loops of SimpleDebayer::debayer from block origin (x, y) on:
\* those of DebayerCodec::decode, but x advances by bytes_per_pixel.
RECURSIVE SimpleLoop(_, _, _, _, _)
SimpleLoop(s, bytes, y, x, pixels) ==
    LET bytes_per_row == s.image_width * s.bytes_per_pixel
        y_offset == y * bytes_per_row
        x_offset == x * s.bytes_per_pixel
        offset == y_offset + x_offset
        next_row_offset == y_offset + bytes_per_row + x_offset
        step == IF s.bytes_per_pixel = 2 THEN 2 ELSE 1
        c == [bytes |-> bytes, bytes_per_pixel |-> s.bytes_per_pixel,
              endianness |-> s.endianness]
    IN IF ~(y < s.image_height) THEN ResOk(pixels, <<>>)
       ELSE IF ~(x < s.image_width) THEN SimpleLoop(s, bytes, y + 2, 0, pixels)
       ELSE IF ~(offset + 2 * step <= Len(bytes)) THEN ResPanic(<<>>)
       ELSE IF ~(next_row_offset + 2 * step <= Len(bytes)) THEN ResPanic(<<>>)
       ELSE SimpleLoop(s, bytes, y, x + s.bytes_per_pixel,
                pixels \o DebayerPixel(<< ReadSample(c, offset),
                                          ReadSample(c, offset + step),
                                          ReadSample(c, next_row_offset),
                                          ReadSample(c, next_row_offset + step) >>,
                                       s.pixel_depth_per_plane))

\* SimpleDebayer::debayer(ser, frame_index): read_frame(..).unwrap(), the
\* power for max_value, the match on ser.bayer, the loops; returns the
\* pixels.
SimpleDebayer_debayer(s, frame_index) ==
    LET frame == SerFile_read_frame(s, frame_index)
    IN IF frame.status # "ok" THEN ResPanic(<<>>)
       ELSE IF PowPanics(s.pixel_depth_per_plane) THEN ResPanic(<<>>)
       ELSE IF s.bayer # "RGGB" THEN ResPanic(<<>>)
       ELSE SimpleLoop(s, frame.val, 0, 0, <<>>)

\* The while loops of DumbDebayer::debayer: r, g, b are read as 16-bit
\* little-endian values at offset, offset + 2 and next_row_offset + 2,
\* whatever bytes_per_pixel is; x advances by bytes_per_pixel.
RECURSIVE DumbLoop(_, _, _, _, _)
DumbLoop(s, bytes, y, x, pixels) ==
    LET bytes_per_row == s.image_width * s.bytes_per_pixel
        y_offset == y * bytes_per_row
        x_offset == x * s.bytes_per_pixel
        offset == y_offset + x_offset
        next_row_offset == y_offset + bytes_per_row + x_offset
        r == ReadU16LE(bytes, offset)
        g == ReadU16LE(bytes, offset + 2)
        b == ReadU16LE(bytes, next_row_offset + 2)
        bits == s.pixel_depth_per_plane
    IN IF ~(y < s.image_height) THEN ResOk(pixels, <<>>)
       ELSE IF ~(x < s.image_width) THEN DumbLoop(s, bytes, y + 2, 0, pixels)
       ELSE IF ~(offset + 4 <= Len(bytes)) THEN ResPanic(<<>>)
       ELSE IF ~(next_row_offset + 4 <= Len(bytes)) THEN ResPanic(<<>>)
       ELSE DumbLoop(s, bytes, y, x + s.bytes_per_pixel,
                pixels \o << ScaleSample(b, bits), ScaleSample(g, bits),
                             ScaleSample(r, bits), ALPHA >>)

\* DumbDebayer::debayer(ser, frame_index)
DumbDebayer_debayer(s, frame_index) ==
    LET frame == SerFile_read_frame(s, frame_index)
    IN IF frame.status # "ok" THEN ResPanic(<<>>)
       ELSE IF PowPanics(s.pixel_depth_per_plane) THEN ResPanic(<<>>)
       ELSE IF s.bayer # "RGGB" THEN ResPanic(<<>>)
       ELSE DumbLoop(s, frame.val, 0, 0, <<>>)

----------------------------------------------------------------------------
(* The u32 arithmetic of the decoders for sources of any size.  A number   *)
(* is held as its base-256 digits, least significant first, so that        *)
(* products beyond 2^32 are exact.                                         *)

DIGITS == 9

\* The digits of n, for 0 <= n < 2^31.
BigOf(n) ==
    [i \in 1..DIGITS |-> IF i <= 4 THEN (n \div (256 ^ (i - 1))) % 256 ELSE 0]

\* Carries propagated through digit sums, from digit i on.
RECURSIVE Carried(_, _, _)
Carried(raw, i, carry) ==
    IF i > DIGITS THEN <<>>
    ELSE <<(raw[i] + carry) % 256>> \o Carried(raw, i + 1, (raw[i] + carry) \div 256)

RECURSIVE SumProducts(_, _, _, _)
SumProducts(a, b, k, i) ==
    IF i > k THEN 0 ELSE a[i] * b[k + 1 - i] + SumProducts(a, b, k, i + 1)

\* The exact product and sum.
BigMul(a, b) == Carried([k \in 1..DIGITS |-> SumProducts(a, b, k, 1)], 1, 0)
BigAdd(a, b) == Carried([k \in 1..DIGITS |-> a[k] + b[k]], 1, 0)

\* The number fits in a u32; the number wrapped to a u32.
FitsU32(a) == \A i \in 5..DIGITS : a[i] = 0
WrapU32(a) == [i \in 1..DIGITS |-> IF i <= 4 THEN a[i] ELSE 0]

\* A u32 operation: its wrapped value, and the operations that exceeded
\* u32 so far, in order.
MulU32(name, a, b, over) ==
    [val |-> WrapU32(BigMul(a, b)),
     over |-> IF FitsU32(BigMul(a, b)) THEN over ELSE Append(over, name)]

AddU32(name, a, b, over) ==
    [val |-> WrapU32(BigAdd(a, b)),
     over |-> IF FitsU32(BigAdd(a, b)) THEN over ELSE Append(over, name)]

\* The largest even number below n (0 for n = 0).
LastEven(n) == IF n = 0 THEN 0 ELSE ((n - 1) \div 2) * 2

\* The u32 operations of RgbCodec::decode that exceed u32, in the order they
\* are made: the capacity width * height * 4 and bytes_per_row = width * 3
\* before the loops, then y * bytes_per_row and x * 3 of the pass (y, x) of
\* the loops.  With y, x outside 0..height-1, 0..width-1 there is no such
\* pass and only the operations before the loops are made.
RgbArith(w, h, y, x) ==
    LET wh == MulU32("width * height", BigOf(w), BigOf(h), <<>>)
        cap == MulU32("width * height * 4", wh.val, BigOf(4), wh.over)
        bpr == MulU32("width * 3", BigOf(w), BigOf(3), cap.over)
        yo == MulU32("y * bytes_per_row", BigOf(y), bpr.val, bpr.over)
        xo == MulU32("x * 3", BigOf(x), BigOf(3), yo.over)
    IN IF y < h /\ x < w THEN xo.over ELSE bpr.over

\* The u32 operations of DebayerCodec::decode that exceed u32: the capacity
\* width * height * 4 and bytes_per_row = width * bytes_per_pixel before the
\* loops, then y * bytes_per_row, x * bytes_per_pixel and y_offset +
\* bytes_per_row + x_offset of the pass (y, x) of the loops, which the code
\* computes before it slices the frame.
DebayerArith(w, h, bpp, y, x) ==
    LET wh == MulU32("width * height", BigOf(w), BigOf(h), <<>>)
        cap == MulU32("width * height * 4", wh.val, BigOf(4), wh.over)
        bpr == MulU32("width * bytes_per_pixel", BigOf(w), BigOf(bpp), cap.over)
        yo == MulU32("y * bytes_per_row", BigOf(y), bpr.val, bpr.over)
        xo == MulU32("x * bytes_per_pixel", BigOf(x), BigOf(bpp), yo.over)
        s1 == AddU32("y_offset + bytes_per_row", yo.val, bpr.val, xo.over)
        s2 == AddU32("y_offset + bytes_per_row + x_offset", s1.val, xo.val, s1.over)
    IN IF y < h /\ x < w THEN s2.over ELSE bpr.over

\* The first and the last value a loop variable takes: for y in 0..n, and
\* while y < n with y += 2.
RgbEnds(n) == IF n = 0 THEN {0} ELSE {0, n - 1}
DebayerEnds(n) == {0, LastEven(n)}

----------------------------------------------------------------------------
(* The inputs: the containers and raw-sensor sources the program is given. *)

SeqsUpTo(S, n) == UNION { [1..k -> S] : k \in 0..n }

Tags == {"hdrl", "avih", "strl", "strh", "strf", "indx", "movi"}

\* Values of bits-per-pixel: the seven the format names and others.
BitCounts == {0, 1, 4, 8, 16, 24, 32} \cup {2, 12, 23, 25, 33, 65535}

Decl(missing, bit_count, total_frames, width, height, movi, stray) ==
    [missing |-> missing, bit_count |-> bit_count, total_frames |-> total_frames,
     width |-> width, height |-> height, movi |-> movi, stray |-> stray,
     planes |-> 1, compression |-> 0,
     avih_size |-> MAIN_HEADER_MIN, strh_size |-> STREAM_HEADER_MIN,
     strf_size |-> STREAM_FORMAT_MIN]

\* Containers with any of the mandatory lists and leaves left out.
StructureDecls ==
    { Decl(m, b, 1, 1, 1, <<"frame", "junk">>, TRUE) :
        m \in SUBSET Tags, b \in {24, 8, 23} }

\* Complete containers with every bits-per-pixel value.
FormatDecls ==
    { Decl({}, b, 1, 1, 1, <<"frame">>, FALSE) : b \in BitCounts }

\* Complete 24-bit containers: every image size, declared frame count and
\* mix of 'movi' children.
FrameDecls ==
    { Decl({}, 24, t, w, h, m, FALSE) :
        t \in 0..MaxTotalFrames, w \in 1..MaxDim, h \in 1..MaxDim,
        m \in SeqsUpTo({"frame", "junk", "rec"}, MaxMovi) }

\* Complete 24-bit containers with a frame leaf that is too short for the
\* image, and a '00db' leaf beside the 'movi' list.
ShortDecls ==
    { Decl({}, 24, 2, w, h, m, TRUE) :
        w \in 1..MaxDim, h \in 1..MaxDim,
        m \in { <<"short">>, <<"frame", "short">>, <<"short", "frame">> } }

\* 24-bit containers whose header leaves declare sizes around the minimum
\* of their record, complete or with one later node left out.
SizeDecls ==
    { [Decl(m, 24, 1, 1, 1, <<"frame">>, FALSE)
          EXCEPT !.avih_size = a, !.strh_size = s, !.strf_size = f] :
        m \in { {}, {"strl"}, {"indx"}, {"movi"} },
        a \in (MAIN_HEADER_MIN - 2)..(MAIN_HEADER_MIN + 1),
        s \in (STREAM_HEADER_MIN - 2)..STREAM_HEADER_MIN,
        f \in (STREAM_FORMAT_MIN - 2)..STREAM_FORMAT_MIN }

\* Complete containers whose pixel-format record declares other plane
\* counts and compression codes (1: BI_RLE8, 3: BI_BITFIELDS).
PlaneDecls ==
    { [Decl({}, b, 1, 2, 1, <<"frame">>, FALSE)
          EXCEPT !.planes = p, !.compression = c] :
        b \in {24, 8}, p \in {0, 1, 2}, c \in {0, 1, 3} }

Containers ==
    { Container(d) : d \in StructureDecls \cup FormatDecls \cup FrameDecls
                            \cup ShortDecls \cup SizeDecls \cup PlaneDecls }

\* The bytes of frame f of a raw-sensor source.
SerByte(seed, f, j) == (seed + 101 * f + 37 * j) % 256

SerSource(w, h, bpp, bits, en, n, seed) ==
    [image_width |-> w, image_height |-> h, frame_count |-> n,
     bytes_per_pixel |-> bpp, pixel_depth_per_plane |-> bits,
     bayer |-> "RGGB", endianness |-> en,
     frames |-> [f \in 1..n |-> [i \in 1..(w * h * bpp) |-> SerByte(seed, f - 1, i - 1)]]]

\* Sources of 8 and 16 bits per plane, and two whose declared depth is
\* beyond the i32 power of the decoders.
SerSources ==
    { SerSource(w, h, d[1], d[2], en, n, seed) :
        w \in 0..MaxSerDim, h \in 0..MaxSerDim,
        d \in { <<1, 8>>, <<2, 16>> },
        en \in {"LittleEndian", "BigEndian"},
        n \in 1..MaxSerFrames, seed \in {3, 200} }
    \cup { SerSource(2, 2, 2, bits, "LittleEndian", 1, 200) : bits \in {31, 32} }

----------------------------------------------------------------------------
(* The state machine: open a container, then call the frame source and the *)
(* decoders.                                                               *)

NoRes ==
    [op |-> "none", codec |-> "none", index |-> 0, status |-> "none",
     width |-> 0, height |-> 0, data |-> <<>>, value |-> 0]

\* No output kept yet, and no other call seen to return since.
NoHist == [mem |-> NoRes, between |-> FALSE]

\* The threads that can run a decode call, and a thread with no call.
Threads == {1, 2}

Idle ==
    [pc |-> "idle", codec |-> "none", index |-> 0, bytes |-> <<>>,
     y |-> 0, x |-> 0, pixels |-> <<>>,
     result |-> [status |-> "none", width |-> 0, height |-> 0, pixels |-> <<>>]]

NoThreads == [t \in Threads |-> Idle]

NoBig == [none |-> TRUE]

\* No VideoPlayer has been constructed.
NoPlayer == [status |-> "none", value |-> 0, codec |-> "none"]

\* VideoPlayer::new(flags): flags.video.unwrap(), flags.codec.unwrap(),
\* value: 0.  flags.video is "None" or "Some" (the frame source);
\* flags.codec is "None" or the codec: "BGR" or "RGGB" for RgbCodec::new of
\* that layout, "Debayer" for DebayerCodec.
VideoPlayer_new(flags) ==
    IF flags.video = "None" THEN [NoPlayer EXCEPT !.status = "panic"]
    ELSE IF flags.codec = "None" THEN [NoPlayer EXCEPT !.status = "panic"]
    ELSE [status |-> "ok", value |-> 0, codec |-> flags.codec]

\* The frame source the calls are made on.
SourceReady == ser # NoSer \/ pc = "open"

\* The program has not panicked: a panic of an assert!, of unwrap(), of an
\* index or slice expression, of todo!() or of an overflow check unwinds the
\* main thread, and nothing in the program catches it.
Running == pc # "panicked" /\ res.status # "panic" /\ player.status # "panic"

Source == IF ser # NoSer THEN SerVideo(ser) ELSE AviVideo(avi)

Init ==
    /\ file \in Containers
    /\ pc = "closed"
    /\ avi = NoAvi
    /\ err = <<>>
    /\ trace = <<>>
    /\ reads = <<>>
    /\ ser = NoSer
    /\ res = NoRes
    /\ hist = NoHist
    /\ th = NoThreads
    /\ player = NoPlayer
    /\ big = NoBig
    /\ build \in Builds

InitSer ==
    /\ file = [entries |-> <<>>, bytes |-> <<>>, decl |-> NoVal]
    /\ pc = "closed"
    /\ avi = NoAvi
    /\ err = <<>>
    /\ trace = <<>>
    /\ reads = <<>>
    /\ ser \in SerSources
    /\ res = NoRes
    /\ hist = NoHist
    /\ th = NoThreads
    /\ player = NoPlayer
    /\ big = NoBig
    /\ build \in Builds

\* AviFile::open(filename)
Open ==
    /\ pc = "closed"
    /\ ser = NoSer
    /\ Running
    /\ LET r == AviFile_open(file)
       IN /\ pc' = CASE r.status = "ok" -> "open"
                     [] r.status = "err" -> "failed"
                     [] OTHER -> "panicked"
          /\ avi' = r.avi
          /\ err' = r.err
          /\ trace' = r.trace
          /\ reads' = r.reads
    /\ UNCHANGED <<file, ser, res, hist, th, player, big, build>>

\* video.frame_count()
CallFrameCount ==
    /\ SourceReady
    /\ Running
    /\ res' = [NoRes EXCEPT !.op = "frame_count", !.status = "ok",
                            !.value = frame_count(Source)]
    /\ UNCHANGED <<file, pc, avi, err, trace, reads, ser, hist, th, player, big, build>>

\* video.get_frame(index)
CallGetFrame(index) ==
    /\ SourceReady
    /\ Running
    /\ LET r == get_frame(Source, index)
       IN res' = [NoRes EXCEPT !.op = "get_frame", !.index = index,
                               !.status = r.status,
                               !.data = IF r.status = "ok" THEN r.val ELSE <<>>]
    /\ UNCHANGED <<file, pc, avi, err, trace, reads, ser, hist, th, player, big, build>>

\* RgbCodec::new(codec_bayer).decode(video, frame_index)
CallRgbDecode(codec_bayer, frame_index) ==
    /\ SourceReady
    /\ Running
    /\ LET r == RgbCodec_decode(codec_bayer, Source, frame_index)
       IN res' = [NoRes EXCEPT !.op = "decode", !.codec = codec_bayer,
                               !.index = frame_index, !.status = r.status,
                               !.width = r.width, !.height = r.height,
                               !.data = r.pixels]
    /\ UNCHANGED <<file, pc, avi, err, trace, reads, ser, hist, th, player, big, build>>

\* DebayerCodec{}.decode(video, frame_index)
CallDebayerDecode(frame_index) ==
    /\ SourceReady
    /\ Running
    /\ LET r == DebayerCodec_decode(Source, frame_index)
       IN res' = [NoRes EXCEPT !.op = "decode", !.codec = "Debayer",
                               !.index = frame_index, !.status = r.status,
                               !.width = r.width, !.height = r.height,
                               !.data = r.pixels]
    /\ UNCHANGED <<file, pc, avi, err, trace, reads, ser, hist, th, player, big, build>>

Calls ==
    \/ CallFrameCount
    \/ \E i \in 0..MaxIndex : CallGetFrame(i)
    \/ \E b \in {"BGR", "RGGB"}, i \in 0..MaxIndex : CallRgbDecode(b, i)
    \/ \E i \in 0..MaxIndex : CallDebayerDecode(i)

Next == Open \/ Calls

\* A container opened as an AviVideo.
Spec == Init /\ [][Next]_vars

\* A raw-sensor source opened by the raw-sensor library.
SpecSer == InitSer /\ [][Calls]_vars

\* Either kind of frame source.
InitAll == Init \/ InitSer

SpecAll == InitAll /\ [][Next]_vars

\* The sources of concurrent and repeated decode calls: the containers with
\* a frame leaf that is too short, and the raw-sensor sources.
InitHist ==
    \/ Init /\ file \in { Container(d) : d \in ShortDecls }
    \/ InitSer

\* SimpleDebayer{}.debayer(&ser, frame_index)
CallSimpleDebayer(frame_index) ==
    /\ ser # NoSer
    /\ Running
    /\ LET r == SimpleDebayer_debayer(ser, frame_index)
       IN res' = [NoRes EXCEPT !.op = "debayer", !.codec = "Simple",
                               !.index = frame_index, !.status = r.status,
                               !.data = IF r.status = "ok" THEN r.val ELSE <<>>]
    /\ UNCHANGED <<file, pc, avi, err, trace, reads, ser, hist, th, player, big, build>>

\* DumbDebayer{}.debayer(&ser, frame_index)
CallDumbDebayer(frame_index) ==
    /\ ser # NoSer
    /\ Running
    /\ LET r == DumbDebayer_debayer(ser, frame_index)
       IN res' = [NoRes EXCEPT !.op = "debayer", !.codec = "Dumb",
                               !.index = frame_index, !.status = r.status,
                               !.data = IF r.status = "ok" THEN r.val ELSE <<>>]
    /\ UNCHANGED <<file, pc, avi, err, trace, reads, ser, hist, th, player, big, build>>

NextDebayer ==
    \/ \E i \in 0..MaxIndex : CallSimpleDebayer(i)
    \/ \E i \in 0..MaxIndex : CallDumbDebayer(i)

\* The debayers of the first player on a raw-sensor file.
SpecDebayer == InitSer /\ [][NextDebayer]_vars

\* The flags a player can be started with.
PlayerFlags ==
    [video : {"None", "Some"}, codec : {"None", "BGR", "RGGB", "Debayer"}]

\* The application starts: VideoPlayer::new(flags) on the frame source.
New ==
    /\ player = NoPlayer
    /\ Running
    /\ \E flags \in PlayerFlags :
          /\ flags.video = "Some" => SourceReady
          /\ player' = VideoPlayer_new(flags)
    /\ UNCHANGED <<file, pc, avi, err, trace, reads, ser, res, hist, th, big, build>>

\* self.codec.decode(self.video.as_ref(), index) with the codec the player
\* was constructed with.
PlayerDecode(codec, index) ==
    IF codec = "Debayer" THEN DebayerCodec_decode(Source, index)
    ELSE RgbCodec_decode(codec, Source, index)

\* update(Message::NextFrame) that always steps forward.
NextValueUnguarded(value, count) == value + 1

\* update(Message::NextFrame): the value after the message.
NextValue(value, count) == IF value + 1 < count THEN value + 1 ELSE value

\* update(Message::PrevFrame): the value after the message.
PrevValue(value) == IF value > 0 THEN value - 1 ELSE value

NextFrame ==
    /\ player.status = "ok"
    /\ Running
    /\ player' = [player EXCEPT !.value = NextValue(@, frame_count(Source))]
    /\ UNCHANGED <<file, pc, avi, err, trace, reads, ser, res, hist, th, big, build>>

PrevFrame ==
    /\ player.status = "ok"
    /\ Running
    /\ player' = [player EXCEPT !.value = PrevValue(@)]
    /\ UNCHANGED <<file, pc, avi, err, trace, reads, ser, res, hist, th, big, build>>

\* view(): the index is value when value < frame_count() and
\* frame_count() - 1 otherwise; with frame_count() = 0 the subtraction on
\* usize overflows: a panic in a debug build, and in a release build the
\* index usize::MAX, for which get_frame fails and decode panics.  Then
\* codec.decode(video, index).
View ==
    /\ player.status = "ok"
    /\ Running
    /\ LET count == frame_count(Source)
           underflow == ~(player.value < count) /\ count = 0
           index == IF player.value < count THEN player.value ELSE count - 1
       IN res' = IF underflow
                 THEN [NoRes EXCEPT !.op = "view", !.codec = player.codec,
                                    !.status = "panic", !.value = player.value]
                 ELSE LET r == PlayerDecode(player.codec, index)
                      IN [NoRes EXCEPT !.op = "view", !.codec = player.codec,
                                       !.index = index,
                                       !.status = r.status, !.width = r.width,
                                       !.height = r.height, !.data = r.pixels,
                                       !.value = player.value]
    /\ UNCHANGED <<file, pc, avi, err, trace, reads, ser, hist, th, player, big, build>>

NextPlayer == Open \/ New \/ NextFrame \/ PrevFrame \/ View

\* The player on either kind of frame source.
SpecPlayer == InitAll /\ [][NextPlayer]_vars

\* Widths and heights of large sources.
BigDims == {0, 1, 2, 3, 1000, 4096, 30000, 32768, 36000, 46341, 65535, 65536, 1431655765}

InitBig ==
    /\ file = [entries |-> <<>>, bytes |-> <<>>, decl |-> NoVal]
    /\ pc = "closed"
    /\ avi = NoAvi
    /\ err = <<>>
    /\ trace = <<>>
    /\ reads = <<>>
    /\ ser = NoSer
    /\ res = NoRes
    /\ hist = NoHist
    /\ th = NoThreads
    /\ player = NoPlayer
    /\ big \in { [width |-> w, height |-> h, bytes_per_pixel |-> b] :
                    w \in BigDims, h \in BigDims, b \in {1, 2} }
    /\ build \in Builds

\* The u32 arithmetic of a decode of a large source up to the pass (y, x)
\* of its loops: an operation that exceeds u32 panics in a debug build and
\* wraps in a release build.
ArithOutcome(codec, y, x, over, profile) ==
    [NoRes EXCEPT !.op = "arith", !.codec = codec, !.value = y, !.index = x,
                  !.status = IF over = <<>> THEN "ok"
                             ELSE IF profile = "debug" THEN "panic" ELSE "wrapped",
                  !.data = IF profile = "debug" /\ over # <<>> THEN <<over[1]>> ELSE over]

RgbDecodeArith ==
    /\ big # NoBig
    /\ Running
    /\ \E y \in RgbEnds(big.height), x \in RgbEnds(big.width) :
          res' = ArithOutcome("BGR", y, x,
                     RgbArith(big.width, big.height, y, x), build)
    /\ UNCHANGED <<file, pc, avi, err, trace, reads, ser, hist, th, player, big, build>>

DebayerDecodeArith ==
    /\ big # NoBig
    /\ Running
    /\ \E y \in DebayerEnds(big.height), x \in DebayerEnds(big.width) :
          res' = ArithOutcome("Debayer", y, x,
                     DebayerArith(big.width, big.height, big.bytes_per_pixel, y, x),
                     build)
    /\ UNCHANGED <<file, pc, avi, err, trace, reads, ser, hist, th, player, big, build>>

NextBig == RgbDecodeArith \/ DebayerDecodeArith

\* The arithmetic of the decoders on sources of any size.
SpecBig == InitBig /\ [][NextBig]_vars

----------------------------------------------------------------------------
(* Two decode calls in progress at once on one shared frame source, each   *)
(* taken one loop iteration at a time.  A call's locals (bytes, y, x,      *)
(* pixels) are the fields of its thread's record.                          *)

\* The call of thread t has returned: its locals are dropped.
Returned(t, result) ==
    [Idle EXCEPT !.pc = "done", !.codec = th[t].codec, !.index = th[t].index,
                 !.result = result]

\* A pixel buffer that the calls of all threads push to.
PixelsOfAnyCall(t) ==
    LET u == CHOOSE v \in Threads : \A k \in Threads : Len(th[v].pixels) >= Len(th[k].pixels)
    IN th[u].pixels

\* let mut pixels = Vec::with_capacity(..): the buffer of the call itself.
PixelsOfCall(t) == th[t].pixels

\* One pass through the loops of RgbCodec::decode in thread t: the return
\* after the last row, the step to the next row, or one pixel.
RgbIter(t) ==
    LET l == th[t]
        w == image_width(Source)
        h == image_height(Source)
        bytes_per_row == w * 3
        offset == l.y * bytes_per_row + l.x * 3
    IN IF ~(l.y < h) THEN Returned(t, Decoded(w, h, l.pixels))
       ELSE IF ~(l.x < w) THEN [l EXCEPT !.y = @ + 1, !.x = 0]
       ELSE IF l.codec # "BGR" THEN Returned(t, DecodePanic)
       ELSE IF ~(offset + 2 < Len(l.bytes)) THEN Returned(t, DecodePanic)
       ELSE [l EXCEPT !.x = @ + 1,
                      !.pixels = PixelsOfCall(t) \o RgbPixel(l.bytes, offset)]

\* One pass through the loops of DebayerCodec::decode in thread t.
DebayerIter(t) ==
    LET l == th[t]
        w == image_width(Source)
        h == image_height(Source)
        bpp == bytes_per_pixel(Source)
        bytes_per_row == w * bpp
        y_offset == l.y * bytes_per_row
        x_offset == l.x * bpp
        offset == y_offset + x_offset
        next_row_offset == y_offset + bytes_per_row + x_offset
        step == IF bpp = 2 THEN 2 ELSE 1
        c == [bytes |-> l.bytes, bytes_per_pixel |-> bpp, endianness |-> endianness(Source)]
        quad == << ReadSample(c, offset), ReadSample(c, offset + step),
                   ReadSample(c, next_row_offset), ReadSample(c, next_row_offset + step) >>
    IN IF ~(l.y < h) THEN Returned(t, Decoded(w \div 2, h \div 2, l.pixels))
       ELSE IF ~(l.x < w) THEN [l EXCEPT !.y = @ + 2, !.x = 0]
       ELSE IF ~(offset + 2 * step <= Len(l.bytes)) THEN Returned(t, DecodePanic)
       ELSE IF ~(next_row_offset + 2 * step <= Len(l.bytes)) THEN Returned(t, DecodePanic)
       ELSE [l EXCEPT !.x = @ + 2,
                      !.pixels = PixelsOfCall(t)
                                    \o DebayerPixel(quad, pixel_depth_bits(Source))]

\* Thread t calls codec.decode(video, frame_index).
StartDecode(t, codec, frame_index) ==
    /\ SourceReady
    /\ th[t].pc = "idle"
    /\ th' = [th EXCEPT ![t] = [Idle EXCEPT !.pc = "get_frame", !.codec = codec,
                                            !.index = frame_index]]
    /\ UNCHANGED <<file, pc, avi, err, trace, reads, ser, res, hist, player, big, build>>

\* let bytes = video.get_frame(frame_index).unwrap(); and what precedes the
\* loops, with the power for max_value in DebayerCodec::decode.
FetchFrame(t) ==
    /\ th[t].pc = "get_frame"
    /\ LET frame == get_frame(Source, th[t].index)
       IN th' = [th EXCEPT ![t] =
                    IF frame.status # "ok" THEN Returned(t, DecodePanic)
                    ELSE IF th[t].codec = "Debayer" /\ PowPanics(pixel_depth_bits(Source))
                    THEN Returned(t, DecodePanic)
                    ELSE [@ EXCEPT !.pc = "loop", !.bytes = frame.val]]
    /\ UNCHANGED <<file, pc, avi, err, trace, reads, ser, res, hist, player, big, build>>

\* One pass through the loops of the decoder thread t is in.
LoopStep(t) ==
    /\ th[t].pc = "loop"
    /\ th' = [th EXCEPT ![t] = IF th[t].codec = "Debayer" THEN DebayerIter(t)
                                                          ELSE RgbIter(t)]
    /\ UNCHANGED <<file, pc, avi, err, trace, reads, ser, res, hist, player, big, build>>

NextConc ==
    \/ Open
    \/ \E t \in Threads, codec \in {"BGR", "Debayer"}, i \in {0, 1} :
          StartDecode(t, codec, i)
    \/ \E t \in Threads : FetchFrame(t)
    \/ \E t \in Threads : LoopStep(t)

\* Two decode calls at a time on one shared frame source.
SpecConc == InitHist /\ [][NextConc]_vars

\* The output of the call thread t has returned from.
OutputOf(t) ==
    [NoRes EXCEPT !.op = "decode", !.codec = th[t].codec, !.index = th[t].index,
                  !.status = th[t].result.status, !.width = th[t].result.width,
                  !.height = th[t].result.height, !.data = th[t].result.pixels]

\* The caller keeps the (w, h, pixels) that a decode call returned, and the
\* thread is free for another call.
KeepOutput(t) ==
    /\ th[t].pc = "done"
    /\ th[t].result.status = "ok"
    /\ hist.mem = NoRes
    /\ hist' = [mem |-> OutputOf(t), between |-> FALSE]
    /\ th' = [th EXCEPT ![t] = Idle]
    /\ UNCHANGED <<file, pc, avi, err, trace, reads, ser, res, player, big, build>>

\* Another call returns after the kept one (its output is dropped, or the
\* thread that made it has panicked), and the thread is free again.
DropOutput(t) ==
    /\ th[t].pc = "done"
    /\ hist.mem # NoRes
    /\ <<th[t].codec, th[t].index>> # <<hist.mem.codec, hist.mem.index>>
    /\ hist' = [hist EXCEPT !.between = TRUE]
    /\ th' = [th EXCEPT ![t] = Idle]
    /\ UNCHANGED <<file, pc, avi, err, trace, reads, ser, res, player, big, build>>

NextAgain == NextConc \/ (\E t \in Threads : KeepOutput(t) \/ DropOutput(t))

\* Decode calls made one after another and side by side, by a caller that
\* keeps an output to compare a later one with.
SpecAgain == InitHist /\ [][NextAgain]_vars

----------------------------------------------------------------------------
(* What the properties speak about, read off the container itself.         *)

\* The positions of the top-level lists of type 'movi'.
TopMoviIdx ==
    { i \in DOMAIN file.entries :
        file.entries[i].kind = "List" /\ file.entries[i].list_type = <<109, 111, 118, 105>> }

HasTopMovi == TopMoviIdx # {}

\* The first top-level 'movi' list.
TopMovi == file.entries[CHOOSE i \in TopMoviIdx : \A j \in TopMoviIdx : i <= j]

\* The positions, among the immediate children of 'movi', of the leaves
\* with id '00db'.
FrameLeafIdx ==
    { i \in DOMAIN TopMovi.children :
        TopMovi.children[i].kind = "Chunk"
            /\ TopMovi.children[i].chunk_id = <<48, 48, 100, 98>> }

\* The k-th (from 0) '00db' leaf directly under 'movi', in file order.
FrameLeaf(k) ==
    TopMovi.children[CHOOSE i \in FrameLeafIdx :
                        Cardinality({ j \in FrameLeafIdx : j < i }) = k]

\* Every leaf of the tree with id '00db', at any depth.
RECURSIVE FrameLeavesAnywhere(_)
FrameLeavesAnywhere(entries) ==
    IF entries = <<>> THEN {}
    ELSE LET e == Head(entries)
         IN (IF e.kind = "List" THEN FrameLeavesAnywhere(e.children)
             ELSE IF e.chunk_id = <<48, 48, 100, 98>> THEN {e} ELSE {})
            \cup FrameLeavesAnywhere(Tail(entries))

\* The children of the list of type t among entries that are leaves with
\* the given id (the empty set when there is no such list).
LeavesOf(entries, t, id) ==
    LET ls == { i \in DOMAIN entries : entries[i].kind = "List" /\ entries[i].list_type = t }
    IN IF ls = {} THEN {}
       ELSE LET l == entries[CHOOSE i \in ls : \A j \in ls : i <= j]
            IN { l.children[i] : i \in { j \in DOMAIN l.children :
                                            l.children[j].kind = "Chunk"
                                                /\ l.children[j].chunk_id = id } }

ListsOf(entries, t) ==
    { entries[i] : i \in { j \in DOMAIN entries :
                              entries[j].kind = "List" /\ entries[j].list_type = t } }

\* Every check open makes before it looks for 'movi' passes: 'hdrl' with an
\* 'avih' leaf of at least 44 bytes, 'strl' with 'strh' (56), 'strf' (48,
\* 24 bits per pixel) and 'indx'.
EarlierChecksPass ==
    \E hdrl \in ListsOf(file.entries, <<104, 100, 114, 108>>) :
        /\ \E c \in LeavesOf(file.entries, <<104, 100, 114, 108>>, <<97, 118, 105, 104>>) :
              c.data_size >= 44
        /\ \E c \in LeavesOf(hdrl.children, <<115, 116, 114, 108>>, <<115, 116, 114, 104>>) :
              c.data_size >= 56
        /\ \E c \in LeavesOf(hdrl.children, <<115, 116, 114, 108>>, <<115, 116, 114, 102>>) :
              c.data_size >= 48
        /\ LeavesOf(hdrl.children, <<115, 116, 114, 108>>, <<105, 110, 100, 120>>) # {}
        /\ file.decl.bit_count = 24

\* The call just made was a decode by RgbCodec(BGR) of a frame of the index
\* whose leaf declares at least width*height*3 bytes.
RgbDecodeOfWholeFrame ==
    /\ pc = "open"
    /\ res.op = "decode"
    /\ res.codec = "BGR"
    /\ res.index < Cardinality(FrameLeafIdx)
    /\ FrameLeaf(res.index).chunk_size >= file.decl.width * file.decl.height * 3

----------------------------------------------------------------------------
(* Properties.                                                             *)

\* C1: for every container open accepts, frame_count() equals the length of
\* the frame index built at open time, the number of '00db' leaves directly
\* under 'movi', also when the header's total_frames says otherwise.
C1_FrameCountIsIndexLength ==
    (pc = "open" /\ res.op = "frame_count")
        => /\ res.value = Len(avi.frames)
           /\ res.value = Cardinality(FrameLeafIdx)

\* C2: get_frame(i) returns an error value when i >= frame_count() and a
\* frame's bytes when 0 <= i < frame_count().
C2_GetFrameErrOrBytes ==
    (pc = "open" /\ res.op = "get_frame")
        => IF res.index >= frame_count(AviVideo(avi))
           THEN res.status = "err"
           ELSE res.status = "ok"

\* C3: whenever DebayerCodec::decode returns, the returned (width, height)
\* is (floor(src_width/2), floor(src_height/2)) and the buffer holds
\* returned_width * returned_height * 4 bytes.
C3_DebayerDimsAndLength ==
    (pc = "open" /\ res.op = "decode" /\ res.codec = "Debayer" /\ res.status = "ok")
        => /\ res.width = file.decl.width \div 2
           /\ res.height = file.decl.height \div 2
           /\ Len(res.data) = res.width * res.height * 4

\* C4: for a packed-BGR source whose frame holds at least width*height*3
\* bytes, RgbCodec::decode returns the declared (width, height) and a
\* buffer of width * height * 4 bytes.
C4_RgbDimsAndLength ==
    RgbDecodeOfWholeFrame
        => /\ res.status = "ok"
           /\ res.width = file.decl.width
           /\ res.height = file.decl.height
           /\ Len(res.data) = file.decl.width * file.decl.height * 4

C4_Witness ==
    /\ RgbDecodeOfWholeFrame
    /\ res.index = 1
    /\ file.decl.width = 2
    /\ file.decl.height = 1
    /\ Len(res.data) = 8

\* C5: for a valid index i, get_frame(i) returns the bytes of the i-th
\* frame leaf in file order, from its payload offset and of exactly its
\* declared size: the pad byte of an odd-sized leaf is not returned.
C5_GetFrameIsPayload ==
    (pc = "open" /\ res.op = "get_frame" /\ res.index < Cardinality(FrameLeafIdx))
        => /\ res.status = "ok"
           /\ Len(res.data) = FrameLeaf(res.index).chunk_size
           /\ \A j \in 1..Len(res.data) :
                 res.data[j] = file.bytes[FrameLeaf(res.index).data_offset + j]

\* C6: parse_stream_format accepts a pixel-format record exactly when its
\* bits-per-pixel is 24 (colour coding BGR, empty colour table); it fails
\* with an 'unsupported' error for 0, 1, 4, 8, 16 and 32 and with the
\* 'invalid' error for every other value, and then open returns no AviFile.
StreamFormatParsed == Len(trace) >= 9 /\ trace[9] = "parse strf" /\ pc # "panicked"

C6_BitCountDecides ==
    StreamFormatParsed
        => LET b == file.decl.bit_count
               rejected == pc = "failed" /\ Len(trace) = 9 /\ avi = NoAvi
           IN /\ b = 24 => /\ Len(trace) > 9
                           /\ pc = "open" => /\ avi.stream_format.header.bit_count = 24
                                             /\ avi.stream_format.color_coding = "BGR"
                                             /\ avi.stream_format.rgb = <<>>
              /\ b = 0 => rejected /\ err = <<"JPG and PNG are not supported">>
              /\ b = 1 => rejected /\ err = <<"Monochrome images are not supported">>
              /\ b \in {4, 8, 16, 32} => rejected /\ err = <<"Unsupported bit_count">>
              /\ b \notin {0, 1, 4, 8, 16, 24, 32} =>
                    rejected /\ err = <<"Invalid bit_count">>

C6_Witness ==
    /\ StreamFormatParsed
    /\ file.decl.bit_count = 65535
    /\ pc = "failed"
    /\ err = <<"Invalid bit_count">>

\* C7 as claimed: every container with no top-level 'movi' list fails with
\* the missing-mandatory-list error naming 'movi'.
C7_NoMoviAlwaysNamesMovi ==
    (pc # "closed" /\ ~HasTopMovi)
        => pc = "failed" /\ err = <<"AVI file is missing mandatory list '", "movi", "'">>

\* C7 amended: for a container with no top-level 'movi' list open returns
\* no AviFile and reads no byte of any '00db' payload; the error is the
\* missing-mandatory-list error naming 'movi' exactly when every earlier
\* check of open passes.
C7_NoMoviFailsBeforeFrames ==
    (pc # "closed" /\ ~HasTopMovi)
        => /\ pc \in {"failed", "panicked"}
           /\ avi = NoAvi
           /\ \A i \in DOMAIN reads : \A c \in FrameLeavesAnywhere(file.entries) :
                 reads[i].to <= c.data_offset
                    \/ reads[i].from >= c.data_offset + c.data_size
           /\ EarlierChecksPass <=>
                 (pc = "failed"
                    /\ err = <<"AVI file is missing mandatory list '", "movi", "'">>)

C7_Witness ==
    /\ pc = "failed"
    /\ ~HasTopMovi
    /\ EarlierChecksPass
    /\ FrameLeavesAnywhere(file.entries) # {}
    /\ Len(reads) > 0
    /\ err = <<"AVI file is missing mandatory list '", "movi", "'">>

\* C8: the frame index holds exactly the immediate children of 'movi' that
\* are leaves with id '00db', in file order; other leaves, nested lists and
\* the '00db' leaves inside nested lists contribute nothing.
C8_IndexIsImmediateFrameLeaves ==
    pc = "open"
        => /\ Len(avi.frames) = Cardinality(FrameLeafIdx)
           /\ \A k \in 1..Len(avi.frames) : avi.frames[k] = FrameLeaf(k - 1)

C8_Witness ==
    /\ pc = "open"
    /\ Len(avi.frames) = 1
    /\ Len(TopMovi.children) = 2
    /\ TopMovi.children[1].kind = "List"
    /\ FrameLeavesAnywhere(TopMovi.children[1].children) # {}

\* C9: for a frame of at least w*h*3 bytes RgbCodec(BGR)::decode emits for
\* each pixel (x, y), row-major and without row padding, the bytes
\* frame[(y*w+x)*3], frame[(y*w+x)*3+1], frame[(y*w+x)*3+2], 255.
C9_RgbPixels ==
    RgbDecodeOfWholeFrame
        => LET w == file.decl.width
               h == file.decl.height
               at == FrameLeaf(res.index).data_offset
           IN /\ res.status = "ok"
              /\ \A y \in 0..(h - 1) : \A x \in 0..(w - 1) :
                    LET p == y * w + x
                    IN /\ Len(res.data) >= 4 * p + 4
                       /\ res.data[4 * p + 1] = file.bytes[at + 3 * p + 1]
                       /\ res.data[4 * p + 2] = file.bytes[at + 3 * p + 2]
                       /\ res.data[4 * p + 3] = file.bytes[at + 3 * p + 3]
                       /\ res.data[4 * p + 4] = 255

C9_Witness ==
    /\ RgbDecodeOfWholeFrame
    /\ file.decl.width = 2
    /\ file.decl.height = 2
    /\ Len(res.data) = 16
    /\ res.data[13] # res.data[15]

\* The sample at pixel (px, py) of frame f of the raw-sensor source: a
\* 16-bit value in the declared byte order, or one byte.
SerSampleAt(f, px, py) ==
    LET at == (py * ser.image_width + px) * ser.bytes_per_pixel
        bs == ser.frames[f + 1]
    IN IF ser.bytes_per_pixel = 2
       THEN IF ser.endianness = "LittleEndian"
            THEN bs[at + 1] + 256 * bs[at + 2]
            ELSE 256 * bs[at + 1] + bs[at + 2]
       ELSE bs[at + 1]

DebayerDecoded ==
    ser # NoSer /\ res.op = "decode" /\ res.codec = "Debayer" /\ res.status = "ok"

\* C10: for every block with even origin (x, y) DebayerCodec::decode emits
\* one pixel, written blue, green, red, alpha, whose red is the sample at
\* (x, y), green the sample at (x+1, y) and blue the sample at (x+1, y+1).
C10_DebayerBlockSamples ==
    DebayerDecoded
        => LET w == ser.image_width
               h == ser.image_height
               bits == ser.pixel_depth_per_plane
           IN \A y \in { n \in 0..(h - 1) : n % 2 = 0 } :
              \A x \in { n \in 0..(w - 1) : n % 2 = 0 } :
                 LET p == (y \div 2) * ((w + 1) \div 2) + (x \div 2)
                 IN /\ Len(res.data) >= 4 * p + 4
                    /\ res.data[4 * p + 1] = ScaleSample(SerSampleAt(res.index, x + 1, y + 1), bits)
                    /\ res.data[4 * p + 2] = ScaleSample(SerSampleAt(res.index, x + 1, y), bits)
                    /\ res.data[4 * p + 3] = ScaleSample(SerSampleAt(res.index, x, y), bits)
                    /\ res.data[4 * p + 4] = 255

C10_Witness ==
    /\ DebayerDecoded
    /\ ser.image_width = 4
    /\ ser.image_height = 4
    /\ ser.bytes_per_pixel = 2
    /\ ser.endianness = "BigEndian"
    /\ Len(res.data) = 16
    /\ res.data[13] # res.data[15]
    /\ res.data[13] # ScaleSample(SerSampleAt(res.index, 2, 3), 16)

\* round(sample * 255 / 2^bits), halves rounded up.
RoundedScale(sample, bits) == (2 * sample * 255 + 2 ^ bits) \div (2 ^ (bits + 1))

\* C11: every colour channel DebayerCodec::decode emits equals
\* round(sample * 255 / 2^pixel_depth_bits) of the sample it is taken from,
\* and the alpha byte of every output pixel is 255.
C11_DebayerRoundedScaling ==
    DebayerDecoded
        => LET w == ser.image_width
               h == ser.image_height
               bits == ser.pixel_depth_per_plane
           IN /\ \A j \in 1..Len(res.data) : j % 4 = 0 => res.data[j] = 255
              /\ \A y \in { n \in 0..(h - 1) : n % 2 = 0 } :
                 \A x \in { n \in 0..(w - 1) : n % 2 = 0 } :
                    LET p == (y \div 2) * ((w + 1) \div 2) + (x \div 2)
                    IN /\ Len(res.data) >= 4 * p + 4
                       /\ res.data[4 * p + 1] = RoundedScale(SerSampleAt(res.index, x + 1, y + 1), bits)
                       /\ res.data[4 * p + 2] = RoundedScale(SerSampleAt(res.index, x + 1, y), bits)
                       /\ res.data[4 * p + 3] = RoundedScale(SerSampleAt(res.index, x, y), bits)

\* The frame slice get_frame returns for the index of the call just made.
FrameOfCall == get_frame(Source, res.index)

\* The byte offsets the loops of RgbCodec::decode address for a width x
\* height image: three bytes per pixel, rows of width * 3 bytes.
RgbOffsets(w, h) ==
    { (y * w + x) * 3 + k : y \in 0..(h - 1), x \in 0..(w - 1), k \in 0..2 }

\* The byte offsets the loops of DebayerCodec::decode address: for every
\* block origin (x, y) with x and y even, two samples of bpp bytes in row y
\* and two in row y + 1.
DebayerOffsets(w, h, bpp) ==
    { (y * w + x) * bpp + r * w * bpp + k :
        y \in { n \in 0..(h - 1) : n % 2 = 0 },
        x \in { n \in 0..(w - 1) : n % 2 = 0 },
        r \in 0..1, k \in 0..(2 * bpp - 1) }

\* The offsets addressed by the decode call just made.
OffsetsOfCall ==
    IF res.codec = "Debayer"
    THEN DebayerOffsets(image_width(Source), image_height(Source), bytes_per_pixel(Source))
    ELSE RgbOffsets(image_width(Source), image_height(Source))

DecodeOfFetchedFrame ==
    SourceReady /\ res.op = "decode" /\ FrameOfCall.status = "ok"

\* C12: whenever the width, height and bytes per pixel of the source make a
\* decoder address an offset at or past the end of the slice get_frame
\* returned, the decode call fails and returns no buffer; a call that
\* returns addressed only offsets inside the slice.
C12_NoReadPastFrame ==
    DecodeOfFetchedFrame
        => /\ (\E o \in OffsetsOfCall : o >= Len(FrameOfCall.val))
                => res.status = "panic" /\ res.data = <<>>
           /\ res.status = "ok"
                => \A o \in OffsetsOfCall : o < Len(FrameOfCall.val)

C12_Witness ==
    /\ DecodeOfFetchedFrame
    /\ ser # NoSer
    /\ res.codec = "Debayer"
    /\ ser.bytes_per_pixel = 2
    /\ ser.image_width = 3
    /\ ser.image_height = 2
    /\ Len(FrameOfCall.val) = 12
    /\ res.status = "panic"

\* The tags under which each mandatory node is searched: the top-level
\* entries belong to the RIFF chunk of form type 'AVI '.
ParentTags(tag) ==
    CASE tag \in {"hdrl", "movi"} -> {"RIFF", "AVI "}
      [] tag \in {"avih", "strl"} -> {"hdrl"}
      [] tag \in {"strh", "strf"} -> {"strl"}

\* The step of open that looks for the tag.
FindStep(tag) ==
    CASE tag = "hdrl" -> "find hdrl" [] tag = "avih" -> "find avih"
      [] tag = "strl" -> "find strl" [] tag = "strh" -> "find strh"
      [] tag = "strf" -> "find strf" [] tag = "movi" -> "find movi"

\* The error message names the tag: it holds it as one of its parts.
Names(message, tag) == \E i \in DOMAIN message : message[i] = tag

\* C14: every missing-mandatory-list and missing-mandatory-chunk error of
\* open names the tag that is missing and the tag of the parent in which it
\* was searched, for each of 'hdrl', 'avih', 'strl', 'strh', 'strf', 'movi'.
C14_MissingErrorNamesTagAndParent ==
    \A tag \in {"hdrl", "avih", "strl", "strh", "strf", "movi"} :
        (pc = "failed" /\ trace[Len(trace)] = FindStep(tag))
            => /\ Names(err, tag)
               /\ \E p \in ParentTags(tag) : Names(err, p)

\* What the call of thread t returns when it runs alone.
AloneResult(t) ==
    IF th[t].codec = "Debayer" THEN DebayerCodec_decode(Source, th[t].index)
    ELSE RgbCodec_decode(th[t].codec, Source, th[t].index)

\* Both calls are in progress or have returned, and thread t has returned.
ReturnedBeside(t) ==
    /\ th[t].pc = "done"
    /\ \A u \in Threads : th[u].pc # "idle"

\* A step of a decode call changes the locals of that call only: the frame
\* source and the locals of the other call are left as they were.
StepIsLocal ==
    th' # th
        => /\ <<file, avi, ser>>' = <<file, avi, ser>>
           /\ \A t, u \in Threads : (t # u /\ th[t]' # th[t]) => th[u]' = th[u]

\* C16: for two decode calls running at once on one shared frame source,
\* under every interleaving of their steps each call returns the output it
\* returns when run alone, and no step of a call writes state that the
\* other call or the frame source reads.
C16_ConcurrentDecodesIndependent ==
    /\ [](\A t \in Threads : ReturnedBeside(t) => th[t].result = AloneResult(t))
    /\ [][StepIsLocal]_vars

C16_Witness ==
    /\ ser # NoSer
    /\ ser.bytes_per_pixel = 2
    /\ th[1].pc = "done"
    /\ th[1].codec = "Debayer"
    /\ th[1].result.status = "ok"
    /\ Len(th[1].result.pixels) = 16
    /\ th[2].pc = "loop"
    /\ th[2].codec = "Debayer"
    /\ Len(th[2].pixels) = 8

\* The children of the first list of type t among entries (none when there
\* is no such list), and the first leaf with a given id.
ChildrenOf(entries, t) ==
    LET ls == { i \in DOMAIN entries : entries[i].kind = "List" /\ entries[i].list_type = t }
    IN IF ls = {} THEN <<>>
       ELSE entries[CHOOSE i \in ls : \A j \in ls : i <= j].children

HasList(entries, t) ==
    \E i \in DOMAIN entries : entries[i].kind = "List" /\ entries[i].list_type = t

LeafIdx(entries, id) ==
    { i \in DOMAIN entries : entries[i].kind = "Chunk" /\ entries[i].chunk_id = id }

HasLeaf(entries, id) == LeafIdx(entries, id) # {}

\* The padded data size of the first leaf with the id; 0 when there is none.
PaddedSizeOf(entries, id) ==
    IF HasLeaf(entries, id)
    THEN entries[CHOOSE i \in LeafIdx(entries, id) :
                    \A j \in LeafIdx(entries, id) : i <= j].data_size
    ELSE 0

HdrlChildren == ChildrenOf(file.entries, <<104, 100, 114, 108>>)
StrlChildren == ChildrenOf(HdrlChildren, <<115, 116, 114, 108>>)

\* The error of the bits-per-pixel check for the value written to 'strf'.
BitCountError ==
    CASE file.decl.bit_count = 0 -> <<"JPG and PNG are not supported">>
      [] file.decl.bit_count = 1 -> <<"Monochrome images are not supported">>
      [] file.decl.bit_count \in {4, 8, 16, 32} -> <<"Unsupported bit_count">>
      [] OTHER -> <<"Invalid bit_count">>

\* A check of open: the step it is, whether the container fails it, and
\* how open ends when it does (an error message, or a panic).
Check(step, fails, end, message) ==
    [step |-> step, fails |-> fails, end |-> end, err |-> message]

CheckHdrl ==
    Check("find hdrl", ~HasList(file.entries, <<104, 100, 114, 108>>), "failed",
          <<"AVI file is missing mandatory list '", "hdrl", "'">>)
CheckAvih ==
    Check("find avih", ~HasLeaf(HdrlChildren, <<97, 118, 105, 104>>), "failed",
          <<"List '", "hdrl", "' is missing mandatory chunk '", "avih", "'">>)
CheckAvihSize ==
    Check("parse avih", PaddedSizeOf(HdrlChildren, <<97, 118, 105, 104>>) < 44,
          "panicked", <<>>)
CheckStrl ==
    Check("find strl", ~HasList(HdrlChildren, <<115, 116, 114, 108>>), "failed",
          <<"List '", "hdrl", "' is missing mandatory list '", "strl", "'">>)
CheckStrh ==
    Check("find strh", ~HasLeaf(StrlChildren, <<115, 116, 114, 104>>), "failed",
          <<"List '", "strl", "' is missing mandatory chunk '", "strh", "'">>)
CheckStrf ==
    Check("find strf", ~HasLeaf(StrlChildren, <<115, 116, 114, 102>>), "failed",
          <<"List '", "strl", "' is missing mandatory chunk '", "strf", "'">>)
CheckIndx ==
    Check("find indx", ~HasLeaf(StrlChildren, <<105, 110, 100, 120>>), "failed",
          <<"List '", "strl", "' is missing mandatory chunk '", "indx", "'">>)
CheckStrhSize ==
    Check("parse strh", PaddedSizeOf(StrlChildren, <<115, 116, 114, 104>>) < 56,
          "panicked", <<>>)
CheckStrfSize ==
    Check("parse strf", PaddedSizeOf(StrlChildren, <<115, 116, 114, 102>>) < 48,
          "panicked", <<>>)
CheckBitCount ==
    Check("parse strf", file.decl.bit_count # 24, "failed", BitCountError)
CheckMovi ==
    Check("find movi", ~HasList(file.entries, <<109, 111, 118, 105>>), "failed",
          <<"AVI file is missing mandatory list '", "movi", "'">>)

\* The checks in the order of the claim, and in the order of the code.
ClaimedChecks ==
    <<CheckHdrl, CheckAvih, CheckStrl, CheckStrh, CheckStrf, CheckBitCount, CheckMovi>>

CodeChecks ==
    <<CheckHdrl, CheckAvih, CheckAvihSize, CheckStrl, CheckStrh, CheckStrf, CheckIndx,
      CheckStrhSize, CheckStrfSize, CheckBitCount, CheckMovi>>

Failing(checks) == { k \in DOMAIN checks : checks[k].fails }

FirstFailing(checks) == CHOOSE k \in Failing(checks) : \A j \in Failing(checks) : k <= j

\* The steps of the checks up to the k-th, each step once.
RECURSIVE StepsUpTo(_, _)
StepsUpTo(checks, k) ==
    IF k = 0 THEN <<>>
    ELSE LET before == StepsUpTo(checks, k - 1)
         IN IF before # <<>> /\ before[Len(before)] = checks[k].step THEN before
            ELSE Append(before, checks[k].step)

\* C17 as claimed: open checks 'hdrl', 'avih', 'strl', 'strh', 'strf', the
\* bits per pixel and 'movi' in this order; a container that fails some of
\* them gets the error of the earliest one it fails, and the failing check
\* is the last step open takes.
C17_ClaimedCheckOrder ==
    (pc # "closed" /\ Failing(ClaimedChecks) # {})
        => LET c == ClaimedChecks[FirstFailing(ClaimedChecks)]
           IN /\ pc = "failed"
              /\ err = c.err
              /\ trace[Len(trace)] = c.step

\* C17 amended: open takes its steps in the order find 'hdrl', find 'avih',
\* decode 'avih' (panic below 44 padded bytes), find 'strl', find 'strh',
\* find 'strf', find 'indx', decode 'strh' (panic below 56), decode 'strf'
\* (panic below 48, then the bits per pixel), find 'movi'; it ends at the
\* earliest step the container fails, with that step's error or panic, and
\* takes no later step; a container that fails none is opened.
C17_CodeCheckOrder ==
    pc # "closed"
        => IF Failing(CodeChecks) = {}
           THEN /\ pc = "open"
                /\ trace = Append(StepsUpTo(CodeChecks, Len(CodeChecks)), "index frames")
           ELSE LET k == FirstFailing(CodeChecks)
                IN /\ pc = CodeChecks[k].end
                   /\ err = CodeChecks[k].err
                   /\ trace = StepsUpTo(CodeChecks, k)
                   /\ avi = NoAvi

C17_Witness ==
    /\ pc = "failed"
    /\ Cardinality(Failing(CodeChecks)) >= 3
    /\ CheckIndx.fails
    /\ CheckBitCount.fails
    /\ CheckMovi.fails
    /\ err = <<"List '", "strl", "' is missing mandatory chunk '", "indx", "'">>
    /\ Len(trace) = 7

\* C18: for a mosaic source with odd width or odd height DebayerCodec::decode
\* completes and drops the last partial column or row: it emits one pixel
\* for each of the floor(width/2) * floor(height/2) blocks that lie inside
\* the image and none for a block that starts in the last column or row.
C18_OddDimsDropPartialBlocks ==
    (/\ ser # NoSer
     /\ res.op = "decode"
     /\ res.codec = "Debayer"
     /\ res.index < ser.frame_count
     /\ (ser.image_width % 2 = 1 \/ ser.image_height % 2 = 1))
        => /\ res.status = "ok"
           /\ res.width = ser.image_width \div 2
           /\ res.height = ser.image_height \div 2
           /\ Len(res.data) = 4 * (ser.image_width \div 2) * (ser.image_height \div 2)

\* C19: open returns an AviFile only when the pixel-format record it
\* decoded has plane count 1 and compression code 0.
C19_OpenNeedsOnePlaneUncompressed ==
    pc = "open"
        => /\ avi.stream_format.header.planes = 1
           /\ avi.stream_format.header.compression = 0
           /\ file.decl.planes = 1
           /\ file.decl.compression = 0

\* The declared size of the first leaf with the id; 0 when there is none.
DeclaredSizeOf(entries, id) ==
    IF HasLeaf(entries, id)
    THEN entries[CHOOSE i \in LeafIdx(entries, id) :
                    \A j \in LeafIdx(entries, id) : i <= j].chunk_size
    ELSE 0

\* The step of open that decodes a header has been taken and has returned
\* a header.
Decoded44 == Len(trace) > 3 /\ trace[3] = "parse avih"
Decoded56 == Len(trace) > 8 /\ trace[8] = "parse strh"
Decoded48 ==
    /\ Len(trace) >= 9
    /\ trace[9] = "parse strf"
    /\ (pc = "panicked" => Len(trace) > 9)

\* C20: open decodes a MainHeader, StreamHeader or PixelFormatHeader only
\* from a leaf whose declared size is at least 44, 56 or 48 bytes; a leaf
\* with a smaller declared size (43, 55 and 47 included) makes open fail
\* and no header is decoded from it.
C20_HeadersNeedDeclaredSize ==
    /\ Decoded44 => DeclaredSizeOf(HdrlChildren, <<97, 118, 105, 104>>) >= 44
    /\ Decoded56 => DeclaredSizeOf(StrlChildren, <<115, 116, 114, 104>>) >= 56
    /\ Decoded48 => DeclaredSizeOf(StrlChildren, <<115, 116, 114, 102>>) >= 48
    /\ (/\ pc = "open"
        => /\ DeclaredSizeOf(HdrlChildren, <<97, 118, 105, 104>>) >= 44
           /\ DeclaredSizeOf(StrlChildren, <<115, 116, 114, 104>>) >= 56
           /\ DeclaredSizeOf(StrlChildren, <<115, 116, 114, 102>>) >= 48)

\* The call just made was a debayer of a frame of an RGGB source with even
\* width and height and 1 or 2 bytes per pixel.
DebayerOfEvenSource ==
    /\ ser # NoSer
    /\ res.op = "debayer"
    /\ res.index < ser.frame_count
    /\ ser.bayer = "RGGB"
    /\ ser.image_width % 2 = 0
    /\ ser.image_height % 2 = 0
    /\ ser.bytes_per_pixel \in {1, 2}

\* C21: for every RGGB source with even width and height and 1 or 2 bytes
\* per pixel SimpleDebayer::debayer and DumbDebayer::debayer return a buffer
\* of exactly (height/2) * (width/2) pixels of 4 bytes each.
C21_DebayerPixelCount ==
    DebayerOfEvenSource
        => /\ res.status = "ok"
           /\ Len(res.data) = 4 * (ser.image_height \div 2) * (ser.image_width \div 2)

\* The first leaf with the id among entries.
FirstLeaf(entries, id) ==
    entries[CHOOSE i \in LeafIdx(entries, id) : \A j \in LeafIdx(entries, id) : i <= j]

\* The container has 'hdrl' with a decodable 'avih', and 'strl' with
\* 'strh' and 'strf' but no 'indx'.
LacksOnlyIndx ==
    /\ ~CheckHdrl.fails /\ ~CheckAvih.fails /\ ~CheckAvihSize.fails
    /\ ~CheckStrl.fails /\ ~CheckStrh.fails /\ ~CheckStrf.fails
    /\ CheckIndx.fails

\* No byte of the leaf was read by open.
Unread(leaf) ==
    \A i \in DOMAIN reads :
        reads[i].to <= leaf.data_offset
            \/ reads[i].from >= leaf.data_offset + leaf.data_size

\* C22: a container with 'hdrl', 'avih', 'strl', 'strh' and 'strf' but no
\* 'indx' chunk in 'strl' is rejected with the missing-mandatory-chunk
\* error naming 'indx', whatever its 'strf' and 'movi' are, and the check
\* comes before the stream header and the pixel format are decoded: open
\* stops at it and has read no byte of 'strh' or 'strf'.
C22_IndxIsRequired ==
    (pc # "closed" /\ LacksOnlyIndx)
        => /\ pc = "failed"
           /\ avi = NoAvi
           /\ err = <<"List '", "strl", "' is missing mandatory chunk '", "indx", "'">>
           /\ trace[Len(trace)] = "find indx"
           /\ \A i \in DOMAIN trace : trace[i] \notin {"parse strh", "parse strf", "find movi"}
           /\ Unread(FirstLeaf(StrlChildren, <<115, 116, 114, 104>>))
           /\ Unread(FirstLeaf(StrlChildren, <<115, 116, 114, 102>>))

C22_Witness ==
    /\ pc = "failed"
    /\ LacksOnlyIndx
    /\ HasTopMovi
    /\ file.decl.bit_count = 24
    /\ PaddedSizeOf(StrlChildren, <<115, 116, 114, 102>>) = 48
    /\ Len(reads) > 0
    /\ err = <<"List '", "strl", "' is missing mandatory chunk '", "indx", "'">>

\* C23: for every container open accepts, and after any sequence of
\* NextFrame and PrevFrame messages, the index view passes to the codec is
\* one for which get_frame returns a frame: view computes an index (the
\* source reports at least one frame or the value is below the count) and
\* the index is inside the frame index built at open time.
C23_ViewIndexHasFrame ==
    (pc = "open" /\ res.op = "view")
        => /\ frame_count(Source) > 0
           /\ res.index < Len(avi.frames)
           /\ get_frame(Source, res.index).status = "ok"

\* The player has a frame source that reports at least one frame.
PlayerHasFrames == player.status = "ok" /\ frame_count(Source) >= 1

\* The value after NextFrame and after PrevFrame, as stated: unchanged at
\* the last and at the first frame, one more and one less elsewhere.
StatedNext(value, n) == IF value = n - 1 THEN value ELSE value + 1
StatedPrev(value) == IF value = 0 THEN value ELSE value - 1

\* C24: with a frame source reporting n >= 1 frames, after any sequence of
\* NextFrame and PrevFrame messages from value 0 the value is in 0..n-1;
\* NextFrame at n-1 and PrevFrame at 0 leave it unchanged, and elsewhere
\* they change it by exactly +1 and -1.
C24_ValueStaysInRange ==
    /\ [](PlayerHasFrames
            => /\ player.value \in 0..(frame_count(Source) - 1)
               /\ NextValue(player.value, frame_count(Source))
                    = StatedNext(player.value, frame_count(Source))
               /\ PrevValue(player.value) = StatedPrev(player.value))
    /\ [][(PlayerHasFrames /\ NextFrame)
            => player.value' = StatedNext(player.value, frame_count(Source))]_vars
    /\ [][(PlayerHasFrames /\ PrevFrame)
            => player.value' = StatedPrev(player.value)]_vars

C24_Witness ==
    /\ pc = "open"
    /\ frame_count(Source) = 2
    /\ player.value = 1
    /\ res.op = "view"
    /\ res.value = 0

\* The frame byte length of the large source as the decoder takes it:
\* width * height * 3 packed, width * height * bytes_per_pixel mosaic.
FrameLength(codec) ==
    BigMul(BigMul(BigOf(big.width), BigOf(big.height)),
           BigOf(IF codec = "BGR" THEN 3 ELSE big.bytes_per_pixel))

\* C25: for every source whose frame byte length fits in a u32, no u32
\* multiplication or addition of RgbCodec::decode or DebayerCodec::decode
\* exceeds 2^32 - 1.
C25_NoOverflowWhenFrameFits ==
    (res.op = "arith" /\ FitsU32(FrameLength(res.codec))) => res.data = <<>>

\* The source has a frame index that a decoder decodes.
SomeFrameDecodes ==
    \E i \in 0..MaxIndex :
        \/ RgbCodec_decode("BGR", Source, i).status = "ok"
        \/ DebayerCodec_decode(Source, i).status = "ok"

\* A decode call that is made now and returns an output.
LaterDecodeSucceeds ==
    /\ \E i \in 0..MaxIndex : CallRgbDecode("BGR", i) \/ CallDebayerDecode(i)
    /\ res'.status = "ok"

\* C13: after a get_frame or decode call that failed on a frame source, a
\* later decode of a valid frame index on the same source still succeeds:
\* the call can be made and returns an output.
C13_FailureLeavesSourceUsable ==
    (SourceReady /\ res.op \in {"get_frame", "decode"}
        /\ res.status \in {"err", "panic"} /\ SomeFrameDecodes)
        => ENABLED LaterDecodeSucceeds

\* The call thread t has returned from is a decode with the decoder and the
\* frame index of the kept output, made after another call has returned.
SameDecodeAgain(t) ==
    /\ hist.mem # NoRes
    /\ hist.between
    /\ th[t].pc = "done"
    /\ th[t].codec = hist.mem.codec
    /\ th[t].index = hist.mem.index

====
